---- MODULE Spec2Model ----
(***************************************************************************)
(* Zoltar backend: dependency-aware status propagation (tasks, projects)   *)
(* and the reminder lifecycle with its polling scheduler.                  *)
(*                                                                         *)
(* Instants are integers.  One second is Sec ticks, so an instant that is  *)
(* not a multiple of Sec carries a sub-second part.  NULL stands for a     *)
(* null column / None.                                                     *)
(***************************************************************************)
EXTENDS Integers, FiniteSets, Sequences, TLC

\* ---------------------------------------------------------------- bounds
MaxNodes == 3        \* tasks (or projects) in the dependency graph
MaxEdges == 3        \* dependency edges of one kind held at a time
MaxTime == 6         \* last instant the clock is read at
Sec == 2             \* ticks per second
SecsPerMinute == 1   \* seconds per minute (scaled down)
SecsPerWeek == 2     \* seconds per week (scaled down)
MaxAdvance == 3      \* weekly advances a trigger may take from its start
UntilAt == 6         \* the UNTIL instant of the bounded weekly rule
MaxEvents == 3       \* length of the reminder event log
MaxPushes == 3       \* length of the dispatch log
MaxReminders == 1    \* reminders created in a sequential run
MaxRelative == 1     \* reminders created in a run with task completions
MaxConcurrent == 2   \* reminders created in a run with the scheduler interleaved
MaxKindTime == 3     \* last clock read of a run with every way of giving a kind
MaxRequests == 2     \* handlers running at the same time
MaxItems == 2        \* items ever put on the lists of a run
MaxCascadeEdges == 4 \* edges of the graphs a run of status updates starts from

NULL == 0 - 1

\* timedelta(minutes=1) and the weekly interval, in ticks
Minute == SecsPerMinute * Sec
Week == SecsPerWeek * Sec

Users == {1, 2}
TaskIds == 1 .. MaxNodes
ProjectIds == 1 .. MaxNodes


\* All orders in which the members of the finite set S can be iterated.
Orders(S) ==
    {s \in [1 .. Cardinality(S) -> S] : \A x \in S : \E i \in DOMAIN s : s[i] = x}

VARIABLES
    now,                 \* last reading of the wall clock
    tasks,               \* id -> [owner_id, status, completed_at]
    task_dependency,     \* <<t, d>> : d \in t.dependency_tasks
    projects,            \* id -> [owner_id, status]
    project_dependency,  \* <<p, d>> : d \in p.dependency_projects
    device_token,        \* user id -> whether users.device_token is set
    reminders,           \* id -> reminder row
    reminder_id_seq,     \* the last id given to a reminder row
    reminder_events,     \* the ReminderEvent table, in insertion order
    pushes,              \* calls made to send_apns_notification, in order
    job,                 \* the scheduler run in flight, if any
    completion,          \* the update_task / update_project call between its commits, if any
    requests,            \* request slot -> the handler running in it, with its session
    lists,               \* id -> [user_id, name]
    list_items,          \* id -> [list_id, text]
    response             \* what the last handler returned

vars == <<now, tasks, task_dependency, projects, project_dependency, device_token,
          reminders, reminder_id_seq, reminder_events, pushes, job, completion, requests,
          lists, list_items, response>>

graphVars == <<tasks, task_dependency, projects, project_dependency>>
listVars == <<lists, list_items>>
reminderVars ==
    <<device_token, reminders, reminder_id_seq, reminder_events, pushes, job, completion, requests,
      listVars>>

\* ------------------------------------------------------- dependency graph

\* task.dependency_tasks / task.dependent_tasks as the handlers use them
dependency_tasks(deps, t) == {d \in TaskIds : <<t, d>> \in deps}
dependent_tasks(deps, t) == {x \in TaskIds : <<x, t>> \in deps}
dependency_projects(deps, p) == {d \in ProjectIds : <<p, d>> \in deps}
dependent_projects(deps, p) == {x \in ProjectIds : <<x, p>> \in deps}

\* The lookup of a task by its id alone
M_OwnedTask_any_owner(ts, u, id) == id \in DOMAIN ts

\* db.query(Task).filter(Task.id == id, Task.owner_id == user_id).first()
OwnedTask(ts, u, id) == id \in DOMAIN ts /\ ts[id].owner_id = u
OwnedProject(ps, u, id) == id \in DOMAIN ps /\ ps[id].owner_id = u

\* check_and_update_task_status with the release branch testing the wrong
\* status, so that a blocked task is never released.
M_check_task_never_released(ts, deps, t) ==
    LET uncompleted_dependencies ==
            \E d \in dependency_tasks(deps, t) :
                d \notin DOMAIN ts \/ ts[d].status # "COMPLETED"
    IN  IF uncompleted_dependencies
        THEN [tasks |-> IF ts[t].status # "BLOCKED"
                        THEN [ts EXCEPT ![t].status = "BLOCKED"] ELSE ts,
              was_unblocked |-> FALSE]
        ELSE [tasks |-> ts, was_unblocked |-> FALSE]

M_check_task_reports_every_free_task(ts, deps, t) ==
    LET uncompleted_dependencies ==
            \E d \in dependency_tasks(deps, t) :
                d \notin DOMAIN ts \/ ts[d].status # "COMPLETED"
    IN  IF uncompleted_dependencies
        THEN [tasks |-> IF ts[t].status # "BLOCKED"
                        THEN [ts EXCEPT ![t].status = "BLOCKED"] ELSE ts,
              was_unblocked |-> FALSE]
        ELSE [tasks |-> IF ts[t].status = "BLOCKED"
                        THEN [ts EXCEPT ![t].status = "PENDING"] ELSE ts,
              was_unblocked |-> TRUE]

\* check_and_update_task_status: the new task table and the returned flag.
check_and_update_task_status(ts, deps, t) ==
    LET uncompleted_dependencies ==
            \E d \in dependency_tasks(deps, t) :
                d \notin DOMAIN ts \/ ts[d].status # "COMPLETED"
    IN  IF uncompleted_dependencies
        THEN [tasks |-> IF ts[t].status # "BLOCKED"
                        THEN [ts EXCEPT ![t].status = "BLOCKED"] ELSE ts,
              was_unblocked |-> FALSE]
        ELSE IF ts[t].status = "BLOCKED"
             THEN [tasks |-> [ts EXCEPT ![t].status = "PENDING"],
                   was_unblocked |-> TRUE]
             ELSE [tasks |-> ts, was_unblocked |-> FALSE]

\* check_and_update_project_status: ON_HOLD is the blocked state, ACTIVE the default.
check_and_update_project_status(ps, deps, p) ==
    LET uncompleted_dependencies ==
            \E d \in dependency_projects(deps, p) :
                d \notin DOMAIN ps \/ ps[d].status # "COMPLETED"
    IN  IF uncompleted_dependencies
        THEN [projects |-> IF ps[p].status # "ON_HOLD"
                           THEN [ps EXCEPT ![p].status = "ON_HOLD"] ELSE ps,
              was_unblocked |-> FALSE]
        ELSE IF ps[p].status = "ON_HOLD"
             THEN [projects |-> [ps EXCEPT ![p].status = "ACTIVE"],
                   was_unblocked |-> TRUE]
             ELSE [projects |-> ps, was_unblocked |-> FALSE]

\* The loop of update_task over db_task.dependent_tasks, taken in `order`.
RECURSIVE CascadeTasks(_, _, _, _)
CascadeTasks(ts, deps, order, i) ==
    IF i > Len(order)
    THEN [tasks |-> ts, unblocked |-> {}]
    ELSE LET r == check_and_update_task_status(ts, deps, order[i])
             rest == CascadeTasks(r.tasks, deps, order, i + 1)
         IN  [tasks |-> rest.tasks,
              unblocked |-> rest.unblocked \cup
                            (IF r.was_unblocked THEN {order[i]} ELSE {})]

\* The loop of update_project over db_project.dependent_projects.
RECURSIVE CascadeProjects(_, _, _, _)
CascadeProjects(ps, deps, order, i) ==
    IF i > Len(order)
    THEN [projects |-> ps, unblocked |-> {}]
    ELSE LET r == check_and_update_project_status(ps, deps, order[i])
             rest == CascadeProjects(r.projects, deps, order, i + 1)
         IN  [projects |-> rest.projects,
              unblocked |-> rest.unblocked \cup
                            (IF r.was_unblocked THEN {order[i]} ELSE {})]

\* What a handler returns: its result code and, for update_task and
\* update_project, the members of the unblocked list.
Reply(ret, unblocked) == [ret |-> ret, unblocked |-> unblocked]

M_RelativeReminders_inactive_too(rs, t) ==
    {r \in DOMAIN rs : /\ rs[r].relative_to_task_completion_id = t
                       /\ rs[r].reminder_type = "RECURRING_RELATIVE"}

\* update_task's query for the relative reminders of the completed task
RelativeReminders(rs, t) ==
    {r \in DOMAIN rs : /\ rs[r].relative_to_task_completion_id = t
                       /\ rs[r].reminder_type = "RECURRING_RELATIVE"
                       /\ rs[r].is_active}

\* update_task(db, task_id, TaskUpdate(status = s), user_id) with the clock at t0
update_task(u, t, s, t0) ==
    IF ~OwnedTask(tasks, u, t)
    THEN /\ response' = Reply("None", {})
         /\ UNCHANGED <<now, graphVars, reminderVars>>
    ELSE
      LET original_status == tasks[t].status
          task_was_completed == s = "COMPLETED" /\ original_status # "COMPLETED"
          completed_at ==
              IF task_was_completed THEN t0
              ELSE IF s # "COMPLETED" /\ original_status = "COMPLETED" THEN NULL
              ELSE tasks[t].completed_at
          committed == [tasks EXCEPT ![t].status = s, ![t].completed_at = completed_at]
      IN  IF ~task_was_completed
          THEN /\ tasks' = committed
               /\ response' = Reply("ok", {})
               /\ UNCHANGED <<now, task_dependency, projects, project_dependency,
                              reminderVars>>
          ELSE /\ t0 >= now /\ t0 <= MaxTime
               /\ now' = t0
               /\ \E order \in Orders(dependent_tasks(task_dependency, t)) :
                    LET c == CascadeTasks(committed, task_dependency, order, 1)
                    IN  /\ tasks' = c.tasks
                        /\ response' = Reply("ok", c.unblocked)
               /\ reminders' =
                    [r \in DOMAIN reminders |->
                        IF r \in RelativeReminders(reminders, t)
                        THEN [reminders[r] EXCEPT
                                !.trigger_datetime =
                                    t0 + Minute * (IF reminders[r].relative_delay_minutes = NULL
                                                   THEN 0
                                                   ELSE reminders[r].relative_delay_minutes),
                                !.last_notified_at = NULL]
                        ELSE reminders[r]]
               /\ UNCHANGED <<task_dependency, projects, project_dependency, device_token, listVars,
                              reminder_id_seq, reminder_events, pushes, job, completion, requests>>

\* update_project(db, project_id, ProjectUpdate(status = s), user_id)
update_project(u, p, s) ==
    IF ~OwnedProject(projects, u, p)
    THEN /\ response' = Reply("None", {})
         /\ UNCHANGED <<now, graphVars, reminderVars>>
    ELSE
      LET original_status == projects[p].status
          project_completed == s = "COMPLETED" /\ original_status # "COMPLETED"
          committed == [projects EXCEPT ![p].status = s]
      IN  /\ IF ~project_completed
             THEN /\ projects' = committed
                  /\ response' = Reply("ok", {})
             ELSE \E order \in Orders(dependent_projects(project_dependency, p)) :
                    LET c == CascadeProjects(committed, project_dependency, order, 1)
                    IN  /\ projects' = c.projects
                        /\ response' = Reply("ok", c.unblocked)
          /\ UNCHANGED <<now, tasks, task_dependency, project_dependency, reminderVars>>

\* The status code add_task_dependency_endpoint / add_project_dependency_endpoint
\* answer with for each result of the handler
add_dependency_endpoint(result) ==
    CASE result = "not_found" -> 404
      [] result = "self_dependency" -> 400
      [] result = "already_exists" -> 204
      [] result = "ok" -> 204
      [] OTHER -> 500

M_add_task_dependency_no_exists_check(u, t, d) ==
    /\ UNCHANGED <<now, projects, project_dependency, reminderVars>>
    /\ IF t = d
       THEN /\ response' = Reply("self_dependency", {})
            /\ UNCHANGED <<tasks, task_dependency>>
       ELSE IF ~OwnedTask(tasks, u, t) \/ ~OwnedTask(tasks, u, d)
       THEN /\ response' = Reply("not_found", {})
            /\ UNCHANGED <<tasks, task_dependency>>
       ELSE /\ Cardinality(task_dependency \cup {<<t, d>>}) <= MaxEdges
            /\ task_dependency' = task_dependency \cup {<<t, d>>}
            /\ tasks' = check_and_update_task_status(tasks, task_dependency', t).tasks
            /\ response' = Reply("ok", {})

M_add_task_dependency_no_self_check(u, t, d) ==
    /\ UNCHANGED <<now, projects, project_dependency, reminderVars>>
    /\ IF ~OwnedTask(tasks, u, t) \/ ~OwnedTask(tasks, u, d)
       THEN /\ response' = Reply("not_found", {})
            /\ UNCHANGED <<tasks, task_dependency>>
       ELSE IF <<t, d>> \in task_dependency
       THEN /\ response' = Reply("already_exists", {})
            /\ UNCHANGED <<tasks, task_dependency>>
       ELSE /\ Cardinality(task_dependency) < MaxEdges
            /\ task_dependency' = task_dependency \cup {<<t, d>>}
            /\ tasks' = check_and_update_task_status(tasks, task_dependency', t).tasks
            /\ response' = Reply("ok", {})

\* add_task_dependency(db, task_id, depends_on_task_id, user_id)
add_task_dependency(u, t, d) ==
    /\ UNCHANGED <<now, projects, project_dependency, reminderVars>>
    /\ IF t = d
       THEN /\ response' = Reply("self_dependency", {})
            /\ UNCHANGED <<tasks, task_dependency>>
       ELSE IF ~OwnedTask(tasks, u, t) \/ ~OwnedTask(tasks, u, d)
       THEN /\ response' = Reply("not_found", {})
            /\ UNCHANGED <<tasks, task_dependency>>
       ELSE IF <<t, d>> \in task_dependency
       THEN /\ response' = Reply("already_exists", {})
            /\ UNCHANGED <<tasks, task_dependency>>
       ELSE /\ Cardinality(task_dependency) < MaxEdges
            /\ task_dependency' = task_dependency \cup {<<t, d>>}
            /\ tasks' = check_and_update_task_status(tasks, task_dependency', t).tasks
            /\ response' = Reply("ok", {})

\* remove_task_dependency(db, task_id, depends_on_task_id, user_id)
remove_task_dependency(u, t, d) ==
    /\ UNCHANGED <<now, projects, project_dependency, reminderVars>>
    /\ IF ~OwnedTask(tasks, u, t) \/ ~OwnedTask(tasks, u, d)
       THEN /\ response' = Reply("not_found", {})
            /\ UNCHANGED <<tasks, task_dependency>>
       ELSE IF <<t, d>> \notin task_dependency
       THEN /\ response' = Reply("not_found", {})
            /\ UNCHANGED <<tasks, task_dependency>>
       ELSE /\ task_dependency' = task_dependency \ {<<t, d>>}
            /\ tasks' = check_and_update_task_status(tasks, task_dependency', t).tasks
            /\ response' = Reply("ok", {})

\* add_project_dependency(db, project_id, depends_on_project_id, user_id)
add_project_dependency(u, p, d) ==
    /\ UNCHANGED <<now, tasks, task_dependency, reminderVars>>
    /\ IF p = d
       THEN /\ response' = Reply("self_dependency", {})
            /\ UNCHANGED <<projects, project_dependency>>
       ELSE IF ~OwnedProject(projects, u, p) \/ ~OwnedProject(projects, u, d)
       THEN /\ response' = Reply("not_found", {})
            /\ UNCHANGED <<projects, project_dependency>>
       ELSE IF <<p, d>> \in project_dependency
       THEN /\ response' = Reply("already_exists", {})
            /\ UNCHANGED <<projects, project_dependency>>
       ELSE /\ Cardinality(project_dependency) < MaxEdges
            /\ project_dependency' = project_dependency \cup {<<p, d>>}
            /\ projects' =
                 check_and_update_project_status(projects, project_dependency', p).projects
            /\ response' = Reply("ok", {})

\* remove_project_dependency(db, project_id, depends_on_project_id, user_id)
remove_project_dependency(u, p, d) ==
    /\ UNCHANGED <<now, tasks, task_dependency, reminderVars>>
    /\ IF ~OwnedProject(projects, u, p) \/ ~OwnedProject(projects, u, d)
       THEN /\ response' = Reply("not_found", {})
            /\ UNCHANGED <<projects, project_dependency>>
       ELSE IF <<p, d>> \notin project_dependency
       THEN /\ response' = Reply("not_found", {})
            /\ UNCHANGED <<projects, project_dependency>>
       ELSE /\ project_dependency' = project_dependency \ {<<p, d>>}
            /\ projects' =
                 check_and_update_project_status(projects, project_dependency', p).projects
            /\ response' = Reply("ok", {})

\* --------------------------------------------------------------- reminders

RequestSlots == 1 .. MaxRequests
NoRequest ==
    [pc |-> "idle", op |-> "none", node |-> NULL, dep |-> NULL, seen |-> {},
     todo |-> <<>>, dirty |-> {}, unblocked |-> {}, ret |-> "none"]
NoRequests == [q \in RequestSlots |-> NoRequest]
NoCompletion == [pc |-> "idle", node |-> NULL, at |-> NULL]
NoJob == [pc |-> "idle", now_utc |-> NULL, to_notify |-> <<>>]
NoReply == Reply("none", {})

NoRule == "None"
ReminderType == {"ONE_TIME", "RECURRING_SCHEDULED", "RECURRING_RELATIVE"}

\* The rule strings dateutil's rrulestr parses; any other string raises ValueError.
ValidRules ==
    {"FREQ=WEEKLY", "FREQ=WEEKLY;COUNT=1", "FREQ=WEEKLY;COUNT=2", "FREQ=WEEKLY;UNTIL=U"}

\* rrulestr(rule_string): interval between occurrences, COUNT and UNTIL parts.
rrulestr(rule_string) ==
    CASE rule_string = "FREQ=WEEKLY" ->
            [interval |-> Week, count |-> NULL, until |-> NULL]
      [] rule_string = "FREQ=WEEKLY;COUNT=1" ->
            [interval |-> Week, count |-> 1, until |-> NULL]
      [] rule_string = "FREQ=WEEKLY;COUNT=2" ->
            [interval |-> Week, count |-> 2, until |-> NULL]
      [] rule_string = "FREQ=WEEKLY;UNTIL=U" ->
            [interval |-> Week, count |-> NULL, until |-> UntilAt]

\* validate_recurrence_rule(rule_string)
validate_recurrence_rule(rule_string) ==
    rule_string # NoRule /\ rule_string # "" /\ rule_string \in ValidRules

\* calculate_next_trigger(rule_string, current_trigger), current_trigger not None.
\* The rule is anchored at dtstart = current_trigger, which rrule stores with its
\* microseconds dropped; rule.after() returns the first occurrence strictly
\* after current_trigger, counting COUNT occurrences from dtstart.
calculate_next_trigger(rule_string, current_trigger) ==
    IF rule_string = NoRule \/ rule_string = "" THEN NULL
    ELSE IF rule_string \notin ValidRules THEN NULL
    ELSE LET rule == rrulestr(rule_string)
             dtstart == current_trigger - (current_trigger % Sec)
             occurrence(k) == dtstart + k * rule.interval
             later == {k \in 0 .. Sec :
                          /\ rule.count = NULL \/ k < rule.count
                          /\ rule.until = NULL \/ occurrence(k) <= rule.until
                          /\ occurrence(k) > current_trigger}
         IN  IF later = {} THEN NULL
             ELSE occurrence(CHOOSE k \in later : \A j \in later : k <= j)

\* db.query(Reminder).filter(Reminder.id == id, Reminder.owner_id == user_id).first()
OwnedReminder(rs, u, id) == id \in DOMAIN rs /\ rs[id].owner_id = u

\* ReminderCreate.check_reminder_logic, run on the raw request before the
\* fields are parsed: the branches compare the raw reminder_type with the
\* enum members, so a kind given as a string matches none of them.
check_reminder_logic(data) ==
    LET reminder_type ==
            IF data.reminder_type = "UNSET" THEN "ONE_TIME" ELSE data.reminder_type
        no_rule == data.recurrence_rule = NoRule \/ data.recurrence_rule = ""
    IN  IF reminder_type = "RECURRING_SCHEDULED"
        THEN [ok |-> ~no_rule /\ data.trigger_datetime # NULL, data |-> data]
        ELSE IF reminder_type = "RECURRING_RELATIVE"
        THEN [ok |-> data.relative_to_task_completion_id # NULL,
              data |-> [data EXCEPT !.trigger_datetime = NULL,
                                    !.recurrence_rule = NoRule]]
        ELSE IF reminder_type = "ONE_TIME"
        THEN [ok |-> data.trigger_datetime # NULL,
              data |-> IF data.relative_to_task_completion_id # NULL
                       THEN [data EXCEPT !.recurrence_rule =
                                            IF no_rule THEN @ ELSE NoRule,
                                         !.relative_to_task_completion_id = NULL,
                                         !.relative_delay_minutes = NULL]
                       ELSE [data EXCEPT !.recurrence_rule =
                                            IF no_rule THEN @ ELSE NoRule]]
        ELSE [ok |-> TRUE, data |-> data]

\* ReminderCreate.normalize_reminder_type: the enum member for a member, for
\* its name or its value in any letter case; "ValueError" for anything else.
\* A member is written by its name; a string is written in lower case (the
\* value) or in mixed case (v.upper() is then the name).
normalize_reminder_type(v) ==
    CASE v \in ReminderType -> v
      [] v = "UNSET" -> "ONE_TIME"
      [] v = "one_time" -> "ONE_TIME"
      [] v = "recurring_scheduled" -> "RECURRING_SCHEDULED"
      [] v = "recurring_relative" -> "RECURRING_RELATIVE"
      [] v = "One_Time" -> "ONE_TIME"
      [] v = "Recurring_Scheduled" -> "RECURRING_SCHEDULED"
      [] v = "Recurring_Relative" -> "RECURRING_RELATIVE"
      [] OTHER -> "ValueError"

\* create_user_reminder(db, ReminderCreate(**req), owner_id).  freq is the
\* row's remind_frequency_minutes, a column no request field sets.
create_user_reminder(u, req, freq) ==
    LET checked == check_reminder_logic(req)
        reminder_type == normalize_reminder_type(req.reminder_type)
        reminder == checked.data
        id == reminder_id_seq + 1
    IN  IF ~checked.ok \/ reminder_type = "ValueError"
        THEN /\ response' = Reply("validation_error", {})
             /\ UNCHANGED <<now, graphVars, reminderVars>>
        ELSE IF /\ reminder.relative_to_task_completion_id # NULL
                /\ ~OwnedTask(tasks, u, reminder.relative_to_task_completion_id)
        THEN /\ response' = Reply("invalid_relative_task", {})
             /\ UNCHANGED <<now, graphVars, reminderVars>>
        ELSE IF /\ reminder.recurrence_rule # NoRule /\ reminder.recurrence_rule # ""
                /\ ~validate_recurrence_rule(reminder.recurrence_rule)
        THEN /\ response' = Reply("invalid_recurrence_rule", {})
             /\ UNCHANGED <<now, graphVars, reminderVars>>
        ELSE /\ reminders' =
                  [r \in DOMAIN reminders \cup {id} |->
                      IF r # id THEN reminders[r]
                      ELSE [owner_id |-> u,
                            reminder_type |-> reminder_type,
                            trigger_datetime |->
                                IF reminder_type = "RECURRING_RELATIVE" THEN NULL
                                ELSE reminder.trigger_datetime,
                            recurrence_rule |-> reminder.recurrence_rule,
                            remind_frequency_minutes |-> freq,
                            relative_delay_minutes |-> reminder.relative_delay_minutes,
                            relative_to_task_completion_id |->
                                reminder.relative_to_task_completion_id,
                            last_notified_at |-> NULL,
                            is_active |-> reminder.is_active,
                            snoozed_until |-> NULL]]
             /\ reminder_id_seq' = id
             /\ response' = Reply("ok", {})
             /\ UNCHANGED <<now, graphVars, device_token, listVars, reminder_events,
                            pushes, job, completion, requests>>

\* update_reminder(db, reminder_id, ReminderUpdate(**update_data), user_id);
\* update_data holds the fields the request sets (exclude_unset).
update_reminder(u, r, update_data) ==
    IF ~OwnedReminder(reminders, u, r)
    THEN /\ response' = Reply("None", {})
         /\ UNCHANGED <<now, graphVars, reminderVars>>
    ELSE
      LET db_reminder == reminders[r]
          set(f) == f \in DOMAIN update_data
          new_type == IF set("reminder_type") THEN update_data.reminder_type
                      ELSE db_reminder.reminder_type
          new_rule == IF set("recurrence_rule") THEN update_data.recurrence_rule
                      ELSE db_reminder.recurrence_rule
          invalid_rule ==
              IF new_type # "ONE_TIME"
              THEN ~validate_recurrence_rule(new_rule)
              ELSE /\ ~set("reminder_type")
                   /\ set("recurrence_rule") /\ update_data.recurrence_rule # NoRule
          nullify_rule == new_type = "ONE_TIME" /\ set("reminder_type")
          applied == [f \in DOMAIN db_reminder |->
                        IF f = "recurrence_rule" /\ nullify_rule THEN NoRule
                        ELSE IF set(f) THEN update_data[f]
                        ELSE db_reminder[f]]
      IN  IF invalid_rule
          THEN /\ response' = Reply("invalid_rule", {})
               /\ UNCHANGED <<now, graphVars, reminderVars>>
          ELSE /\ reminders' = [reminders EXCEPT ![r] = applied]
               /\ response' = Reply("ok", {})
               /\ UNCHANGED <<now, graphVars, device_token, listVars, reminder_id_seq,
                              reminder_events, pushes, job, completion, requests>>

\* delete_reminder(db, reminder_id, user_id); the row's events go with it
\* (cascade="all, delete-orphan").
delete_reminder(u, r) ==
    IF ~OwnedReminder(reminders, u, r)
    THEN /\ response' = Reply("False", {})
         /\ UNCHANGED <<now, graphVars, reminderVars>>
    ELSE /\ reminders' = [x \in DOMAIN reminders \ {r} |-> reminders[x]]
         /\ reminder_events' = SelectSeq(reminder_events, LAMBDA e : e.reminder_id # r)
         /\ response' = Reply("True", {})
         /\ UNCHANGED <<now, graphVars, device_token, listVars, reminder_id_seq,
                        pushes, job, completion, requests>>

\* The handlers' test of a reminder that is already resolved
M_never_inactive(db_reminder) == FALSE
is_inactive(db_reminder) == ~db_reminder.is_active

ReminderEvent(r, expected, at, action) ==
    [reminder_id |-> r, expected_trigger_time |-> expected,
     action_time |-> at, action_type |-> action]

\* The row complete_reminder_instance leaves: advanced to the next occurrence
\* of a RECURRING_SCHEDULED rule, or deactivated.
CompletedRow(db_reminder) ==
    IF db_reminder.reminder_type = "RECURRING_SCHEDULED"
    THEN LET next_trigger == calculate_next_trigger(db_reminder.recurrence_rule,
                                                    db_reminder.trigger_datetime)
         IN  IF next_trigger # NULL
             THEN [db_reminder EXCEPT !.trigger_datetime = next_trigger]
             ELSE [db_reminder EXCEPT !.is_active = FALSE]
    ELSE [db_reminder EXCEPT !.is_active = FALSE]

\* The row skip_reminder_instance leaves.
SkippedRow(db_reminder) ==
    IF db_reminder.reminder_type = "RECURRING_SCHEDULED"
    THEN LET next_trigger == calculate_next_trigger(db_reminder.recurrence_rule,
                                                    db_reminder.trigger_datetime)
         IN  IF next_trigger # NULL
             THEN [db_reminder EXCEPT !.trigger_datetime = next_trigger]
             ELSE [db_reminder EXCEPT !.is_active = FALSE]
    ELSE [db_reminder EXCEPT !.is_active = FALSE]

\* complete_reminder_instance(db, reminder_id, user_id) with the clock at t.
\* With trigger_datetime None the handler raises: calculate_next_trigger reads
\* None.tzinfo, or the commit violates expected_trigger_time NOT NULL; the
\* session is closed without a commit.
complete_reminder_instance(u, r, t) ==
    IF ~OwnedReminder(reminders, u, r)
    THEN /\ response' = Reply("not_found", {})
         /\ UNCHANGED <<now, graphVars, reminderVars>>
    ELSE IF is_inactive(reminders[r])
    THEN /\ response' = Reply("inactive", {})
         /\ UNCHANGED <<now, graphVars, reminderVars>>
    ELSE /\ t > now /\ t <= MaxTime
         /\ now' = t
         /\ IF reminders[r].trigger_datetime = NULL
            THEN /\ response' = Reply("error", {})
                 /\ UNCHANGED <<graphVars, reminderVars>>
            ELSE /\ Len(reminder_events) < MaxEvents
                 /\ CompletedRow(reminders[r]).trigger_datetime <= MaxAdvance * Week + Sec
                 /\ reminder_events' =
                      Append(reminder_events,
                             ReminderEvent(r, reminders[r].trigger_datetime, t, "COMPLETED"))
                 /\ reminders' = [reminders EXCEPT ![r] = CompletedRow(reminders[r])]
                 /\ response' = Reply("ok", {})
                 /\ UNCHANGED <<graphVars, device_token, listVars, reminder_id_seq,
                                pushes, job, completion, requests>>

\* skip_reminder_instance(db, reminder_id, user_id) with the clock at t
skip_reminder_instance(u, r, t) ==
    IF ~OwnedReminder(reminders, u, r)
    THEN /\ response' = Reply("not_found", {})
         /\ UNCHANGED <<now, graphVars, reminderVars>>
    ELSE IF is_inactive(reminders[r])
    THEN /\ response' = Reply("inactive", {})
         /\ UNCHANGED <<now, graphVars, reminderVars>>
    ELSE /\ t > now /\ t <= MaxTime
         /\ now' = t
         /\ IF reminders[r].trigger_datetime = NULL
            THEN /\ response' = Reply("error", {})
                 /\ UNCHANGED <<graphVars, reminderVars>>
            ELSE /\ Len(reminder_events) < MaxEvents
                 /\ SkippedRow(reminders[r]).trigger_datetime <= MaxAdvance * Week + Sec
                 /\ reminder_events' =
                      Append(reminder_events,
                             ReminderEvent(r, reminders[r].trigger_datetime, t, "SKIPPED"))
                 /\ reminders' = [reminders EXCEPT ![r] = SkippedRow(reminders[r])]
                 /\ response' = Reply("ok", {})
                 /\ UNCHANGED <<graphVars, device_token, listVars, reminder_id_seq,
                                pushes, job, completion, requests>>

\* update_user_device_token(db, user_id, device_token)
register_device_token(u) ==
    /\ device_token' = [device_token EXCEPT ![u] = TRUE]
    /\ response' = Reply("ok", {})
    /\ UNCHANGED <<now, graphVars, listVars, reminders, reminder_id_seq, reminder_events,
                   pushes, job, completion, requests>>

\* ---------------------------------------------------------- the scheduler

M_reminders_to_check_snoozed_too(rs, now_utc) ==
    {r \in DOMAIN rs :
        /\ rs[r].is_active
        /\ rs[r].trigger_datetime # NULL /\ rs[r].trigger_datetime <= now_utc}

\* The query of check_due_reminders_job at now_utc
reminders_to_check(rs, now_utc) ==
    {r \in DOMAIN rs :
        /\ rs[r].is_active
        /\ rs[r].trigger_datetime # NULL /\ rs[r].trigger_datetime <= now_utc
        /\ rs[r].snoozed_until = NULL \/ rs[r].snoozed_until <= now_utc}

NewlyDue(row) ==
    row.last_notified_at = NULL \/ row.last_notified_at < row.trigger_datetime

PersistentDue(row, now_utc) ==
    /\ row.remind_frequency_minutes # NULL /\ row.last_notified_at # NULL
    /\ row.last_notified_at + Minute * row.remind_frequency_minutes <= now_utc

\* The rows of the query in id order
RowOrder(rs) == [i \in 1 .. reminder_id_seq |-> i]

\* reminders_to_notify as the two loops build it: the newly due rows, then
\* the persistent rows that are not in the list yet.
reminders_to_notify(rs, now_utc) ==
    LET checked == reminders_to_check(rs, now_utc)
        newly == SelectSeq(RowOrder(rs), LAMBDA r : r \in checked /\ NewlyDue(rs[r]))
        again == SelectSeq(RowOrder(rs),
                           LAMBDA r : /\ r \in checked /\ PersistentDue(rs[r], now_utc)
                                      /\ \A i \in DOMAIN newly : newly[i] # r)
    IN  newly \o again

\* What the notification loop holds of each listed row: the attributes as the
\* query loaded them.
Loaded(rs, list) ==
    [i \in DOMAIN list |->
        [id |-> list[i], trigger_datetime |-> rs[list[i]].trigger_datetime,
         owner_id |-> rs[list[i]].owner_id]]

\* The calls to send_apns_notification the loop makes: one per listed row
\* whose owner has a device token.
Notifications(loaded, now_utc) ==
    LET with_token == SelectSeq(loaded, LAMBDA x : device_token[x.owner_id])
    IN  [i \in DOMAIN with_token |->
            [reminder_id |-> with_token[i].id,
             trigger_datetime |-> with_token[i].trigger_datetime,
             at |-> now_utc]]

M_TriggeredEvents_none(loaded, now_utc) == <<>>

\* The TRIGGERED events the loop adds to the session
TriggeredEvents(loaded, now_utc) ==
    [i \in DOMAIN loaded |->
        ReminderEvent(loaded[i].id, loaded[i].trigger_datetime, now_utc, "TRIGGERED")]

\* The rows after the loop's last_notified_at updates are written
Notified(rs, loaded, now_utc) ==
    [r \in DOMAIN rs |->
        IF \E i \in DOMAIN loaded : loaded[i].id = r
        THEN [rs[r] EXCEPT !.last_notified_at = now_utc]
        ELSE rs[r]]

\* check_due_reminders_job() run to its end with the clock at now_utc, nothing
\* else touching the store meanwhile.
check_due_reminders_job(now_utc) ==
    /\ job.pc = "idle"
    /\ now_utc > now /\ now_utc <= MaxTime
    /\ now' = now_utc
    /\ LET loaded == Loaded(reminders, reminders_to_notify(reminders, now_utc))
       IN  /\ Len(reminder_events) + Len(loaded) <= MaxEvents
           /\ Len(pushes) + Len(loaded) <= MaxPushes
           /\ pushes' = pushes \o Notifications(loaded, now_utc)
           /\ reminder_events' = reminder_events \o TriggeredEvents(loaded, now_utc)
           /\ reminders' = Notified(reminders, loaded, now_utc)
    /\ response' = response
    /\ UNCHANGED <<graphVars, device_token, listVars, reminder_id_seq, job, completion, requests>>

\* ------------------------------------------------------------ graph runs

\* create_user_task / create_user_project with the schema's default status
NewTask(u) == [owner_id |-> u, status |-> "PENDING", completed_at |-> NULL]
NewProject(u) == [owner_id |-> u, status |-> "ACTIVE"]

\* A store holding MaxNodes tasks, or MaxNodes projects, each just created by
\* user 1 with the default status; no edges, no reminders.
InitGraph ==
    /\ now = 0
    /\ \/ /\ tasks = [t \in TaskIds |-> NewTask(1)]
          /\ projects = <<>>
       \/ /\ tasks = <<>>
          /\ projects = [p \in ProjectIds |-> NewProject(1)]
    /\ task_dependency = {}
    /\ project_dependency = {}
    /\ device_token = [u \in Users |-> FALSE]
    /\ lists = <<>>
    /\ list_items = <<>>
    /\ reminders = <<>>
    /\ reminder_id_seq = 0
    /\ reminder_events = <<>>
    /\ pushes = <<>>
    /\ job = NoJob
    /\ completion = NoCompletion
    /\ requests = NoRequests
    /\ response = NoReply

CompleteTask == \E u \in Users, t \in TaskIds : update_task(u, t, "COMPLETED", now)
CompleteProject == \E u \in Users, p \in ProjectIds : update_project(u, p, "COMPLETED")
AddTaskDependency == \E u \in Users, t, d \in TaskIds : add_task_dependency(u, t, d)
RemoveTaskDependency == \E u \in Users, t, d \in TaskIds : remove_task_dependency(u, t, d)
AddProjectDependency == \E u \in Users, p, d \in ProjectIds : add_project_dependency(u, p, d)
RemoveProjectDependency ==
    \E u \in Users, p, d \in ProjectIds : remove_project_dependency(u, p, d)

NextGraph ==
    \/ CompleteTask
    \/ CompleteProject
    \/ AddTaskDependency
    \/ RemoveTaskDependency
    \/ AddProjectDependency
    \/ RemoveProjectDependency

SpecGraph == InitGraph /\ [][NextGraph]_vars

\* ---------------------------------------------------------- reminder runs

ReminderIds == 1 .. MaxReminders
ClockReads == (now + 1) .. MaxTime

Req(type, trigger, rule, task, delay) ==
    [reminder_type |-> type, trigger_datetime |-> trigger, recurrence_rule |-> rule,
     relative_to_task_completion_id |-> task, relative_delay_minutes |-> delay,
     is_active |-> TRUE]

\* The creation requests of a run, each with the remind_frequency_minutes of
\* the row: each kind, whole-second and sub-second trigger instants, each
\* rule, and requests the validation turns down.
CreateRequests ==
    {<<Req("ONE_TIME", 2, NoRule, NULL, NULL), NULL>>,
     <<Req("ONE_TIME", 2, NoRule, NULL, NULL), 1>>,
     <<Req("ONE_TIME", NULL, NoRule, NULL, NULL), NULL>>,
     <<Req("RECURRING_SCHEDULED", 0, "FREQ=WEEKLY", NULL, NULL), NULL>>,
     <<Req("RECURRING_SCHEDULED", 0, "FREQ=WEEKLY", NULL, NULL), 1>>,
     <<Req("RECURRING_SCHEDULED", 1, "FREQ=WEEKLY", NULL, NULL), NULL>>,
     <<Req("RECURRING_SCHEDULED", 0, "FREQ=WEEKLY;COUNT=1", NULL, NULL), NULL>>,
     <<Req("RECURRING_SCHEDULED", 0, "FREQ=WEEKLY;COUNT=2", NULL, NULL), NULL>>,
     <<Req("RECURRING_SCHEDULED", 2, "FREQ=WEEKLY;UNTIL=U", NULL, NULL), NULL>>,
     <<Req("RECURRING_SCHEDULED", 0, "BOGUS", NULL, NULL), NULL>>,
     <<Req("RECURRING_RELATIVE", NULL, NoRule, 1, 1), NULL>>,
     <<Req("RECURRING_RELATIVE", NULL, NoRule, 2, 1), NULL>>}

\* The update requests of a run
UpdateRequests ==
    {[snoozed_until |-> 3], [is_active |-> FALSE]}

\* A store holding one task of user 1 and no reminder
Init ==
    /\ now = 0
    /\ tasks = [t \in {1} |-> NewTask(1)]
    /\ projects = <<>>
    /\ task_dependency = {}
    /\ project_dependency = {}
    /\ device_token = [u \in Users |-> FALSE]
    /\ lists = <<>>
    /\ list_items = <<>>
    /\ reminders = <<>>
    /\ reminder_id_seq = 0
    /\ reminder_events = <<>>
    /\ pushes = <<>>
    /\ job = NoJob
    /\ completion = NoCompletion
    /\ requests = NoRequests
    /\ response = NoReply

CreateReminder ==
    /\ reminder_id_seq < MaxReminders
    /\ \E req \in CreateRequests : create_user_reminder(1, req[1], req[2])
UpdateReminder ==
    \E u \in Users, r \in ReminderIds, upd \in UpdateRequests : update_reminder(u, r, upd)
DeleteReminder == \E u \in Users, r \in ReminderIds : delete_reminder(u, r)
CompleteReminder ==
    \E u \in Users, r \in ReminderIds, t \in ClockReads : complete_reminder_instance(u, r, t)
SkipReminder ==
    \E u \in Users, r \in ReminderIds, t \in ClockReads : skip_reminder_instance(u, r, t)
RegisterDeviceToken == register_device_token(1)
SchedulerRun == \E t \in ClockReads : check_due_reminders_job(t)

Next ==
    \/ CreateReminder
    \/ UpdateReminder
    \/ DeleteReminder
    \/ CompleteReminder
    \/ SkipReminder
    \/ RegisterDeviceToken
    \/ SchedulerRun

Spec == Init /\ [][Next]_vars

\* ------------------------------------------- runs with relative reminders

\* The creation requests of a run with task completions: relative reminders
\* on either task, with and without a delay, and a reminder of another kind.
RelativeRequests ==
    {<<Req("RECURRING_RELATIVE", NULL, NoRule, 1, 1), NULL>>,
     <<Req("RECURRING_RELATIVE", NULL, NoRule, 2, NULL), NULL>>,
     <<Req("ONE_TIME", 2, NoRule, NULL, NULL), NULL>>}

\* A store holding two tasks of user 1 and no reminder
InitRelative ==
    /\ now = 0
    /\ tasks = [t \in {1, 2} |-> NewTask(1)]
    /\ projects = <<>>
    /\ task_dependency = {}
    /\ project_dependency = {}
    /\ device_token = [u \in Users |-> FALSE]
    /\ lists = <<>>
    /\ list_items = <<>>
    /\ reminders = <<>>
    /\ reminder_id_seq = 0
    /\ reminder_events = <<>>
    /\ pushes = <<>>
    /\ job = NoJob
    /\ completion = NoCompletion
    /\ requests = NoRequests
    /\ response = NoReply

CreateRelativeReminder ==
    /\ reminder_id_seq < MaxRelative
    /\ \E req \in RelativeRequests : create_user_reminder(1, req[1], req[2])
CompleteTaskAt ==
    \E u \in Users, t \in TaskIds, t0 \in ClockReads : update_task(u, t, "COMPLETED", t0)
CompleteTaskAgain ==
    \E u \in Users, t \in TaskIds :
        /\ t \in DOMAIN tasks /\ tasks[t].status = "COMPLETED"
        /\ update_task(u, t, "COMPLETED", now)
ReopenTask == \E u \in Users, t \in TaskIds : update_task(u, t, "PENDING", now)
DeactivateReminder ==
    \E u \in Users, r \in 1 .. MaxRelative : update_reminder(u, r, [is_active |-> FALSE])
ResolveReminder ==
    \E u \in Users, r \in 1 .. MaxRelative, t \in ClockReads :
        complete_reminder_instance(u, r, t)

NextRelative ==
    \/ CreateRelativeReminder
    \/ CompleteTaskAt
    \/ CompleteTaskAgain
    \/ ReopenTask
    \/ DeactivateReminder
    \/ ResolveReminder
    \/ SchedulerRun

SpecRelative == InitRelative /\ [][NextRelative]_vars

\* ------------------------------------- the scheduler among other requests

\* check_due_reminders_job() up to the end of its notification loop: the
\* query, the list, the notifications sent; the events and the
\* last_notified_at updates are pending in the job's session.
job_start(now_utc) ==
    /\ job.pc = "idle"
    /\ now_utc > now /\ now_utc <= MaxTime
    /\ now' = now_utc
    /\ LET loaded == Loaded(reminders, reminders_to_notify(reminders, now_utc))
       IN  /\ Len(pushes) + Len(loaded) <= MaxPushes
           /\ pushes' = pushes \o Notifications(loaded, now_utc)
           /\ job' = IF loaded = <<>> THEN NoJob
                     ELSE [pc |-> "notified", now_utc |-> now_utc, to_notify |-> loaded]
    /\ response' = response
    /\ UNCHANGED <<graphVars, device_token, listVars, reminders, reminder_id_seq, reminder_events,
                   completion, requests>>

\* db.commit() of the job.  The flush updates each listed row by its id; when
\* a listed row has been deleted meanwhile the UPDATE matches no row, the
\* flush raises and the whole transaction is rolled back.
job_commit ==
    /\ job.pc = "notified"
    /\ IF \A i \in DOMAIN job.to_notify : job.to_notify[i].id \in DOMAIN reminders
       THEN /\ Len(reminder_events) + Len(job.to_notify) <= MaxEvents
            /\ reminder_events' =
                  reminder_events \o TriggeredEvents(job.to_notify, job.now_utc)
            /\ reminders' = Notified(reminders, job.to_notify, job.now_utc)
       ELSE UNCHANGED <<reminders, reminder_events>>
    /\ job' = NoJob
    /\ response' = response
    /\ UNCHANGED <<now, graphVars, device_token, listVars, reminder_id_seq, pushes, completion,
                   requests>>

\* The creation requests of a run with the scheduler among the requests
ConcurrentRequests ==
    {<<Req("ONE_TIME", 2, NoRule, NULL, NULL), NULL>>,
     <<Req("RECURRING_SCHEDULED", 0, "FREQ=WEEKLY", NULL, NULL), NULL>>}

CreateDueReminder ==
    /\ reminder_id_seq < MaxConcurrent
    /\ job.pc = "idle"
    /\ \E req \in ConcurrentRequests : create_user_reminder(1, req[1], req[2])
DeleteAnyReminder == \E u \in Users, r \in 1 .. MaxConcurrent : delete_reminder(u, r)
CompleteAnyReminder ==
    \E u \in Users, r \in 1 .. MaxConcurrent, t \in ClockReads :
        complete_reminder_instance(u, r, t)
JobStart == \E t \in ClockReads : job_start(t)
JobCommit == job_commit

NextConcurrent ==
    \/ CreateDueReminder
    \/ RegisterDeviceToken
    \/ DeleteAnyReminder
    \/ CompleteAnyReminder
    \/ JobStart
    \/ JobCommit

SpecConcurrent == Init /\ [][NextConcurrent]_vars

\* ------------------------------------------------- claims: dependency graph

UncompletedTaskDependency(t) ==
    \E d \in dependency_tasks(task_dependency, t) :
        d \notin DOMAIN tasks \/ tasks[d].status # "COMPLETED"
UncompletedProjectDependency(p) ==
    \E d \in dependency_projects(project_dependency, p) :
        d \notin DOMAIN projects \/ projects[d].status # "COMPLETED"

\* C1: after any sequence of add_dependency, remove_dependency and completion
\* operations every task is BLOCKED (every project ON_HOLD) if and only if it
\* has at least one dependency whose status is not COMPLETED.
C1_BlockedIffUncompletedDependency ==
    /\ \A t \in DOMAIN tasks :
          tasks[t].status = "BLOCKED" <=> UncompletedTaskDependency(t)
    /\ \A p \in DOMAIN projects :
          projects[p].status = "ON_HOLD" <=> UncompletedProjectDependency(p)

\* a, b, c form a chain: b depends only on a, c depends only on b, a depends
\* on nothing, and b and c are blocked while a is still to be completed.
TaskChain(a, b, c) ==
    /\ {a, b, c} \subseteq DOMAIN tasks /\ Cardinality({a, b, c}) = 3
    /\ task_dependency = {<<b, a>>, <<c, b>>}
    /\ tasks[a].status = "PENDING"
    /\ tasks[b].status = "BLOCKED" /\ tasks[c].status = "BLOCKED"
ProjectChain(a, b, c) ==
    /\ {a, b, c} \subseteq DOMAIN projects /\ Cardinality({a, b, c}) = 3
    /\ project_dependency = {<<b, a>>, <<c, b>>}
    /\ projects[a].status = "ACTIVE"
    /\ projects[b].status = "ON_HOLD" /\ projects[c].status = "ON_HOLD"

\* The step is the completion of task a (of project a) by its owner.
TaskCompleted(a) == tasks[a].status # "COMPLETED" /\ tasks'[a].status = "COMPLETED"
ProjectCompleted(a) ==
    projects[a].status # "COMPLETED" /\ projects'[a].status = "COMPLETED"

\* C2 as claimed: completing a in a chain a <- b <- c reports both b and c as
\* newly released and leaves neither of them blocked.
C2_ChainReportsBoth ==
    [][/\ Cardinality(task_dependency) = 2 /\ tasks' # tasks =>
          \A a, b, c \in TaskIds :
            TaskChain(a, b, c) /\ TaskCompleted(a) =>
                /\ {b, c} \subseteq response'.unblocked
                /\ tasks'[b].status # "BLOCKED" /\ tasks'[c].status # "BLOCKED"
       /\ Cardinality(project_dependency) = 2 /\ projects' # projects =>
          \A a, b, c \in ProjectIds :
            ProjectChain(a, b, c) /\ ProjectCompleted(a) =>
                /\ {b, c} \subseteq response'.unblocked
                /\ projects'[b].status # "ON_HOLD" /\ projects'[c].status # "ON_HOLD"
      ]_vars

\* C2 amended: completing a in a chain a <- b <- c reports exactly b, which
\* takes the default status; c is not reported and stays blocked, because its
\* only dependency b is not COMPLETED.
C2_ChainReportsDirectDependent ==
    [][/\ Cardinality(task_dependency) = 2 /\ tasks' # tasks =>
          \A a, b, c \in TaskIds :
            TaskChain(a, b, c) /\ TaskCompleted(a) =>
                /\ response'.unblocked = {b}
                /\ tasks'[b].status = "PENDING" /\ tasks'[c].status = "BLOCKED"
       /\ Cardinality(project_dependency) = 2 /\ projects' # projects =>
          \A a, b, c \in ProjectIds :
            ProjectChain(a, b, c) /\ ProjectCompleted(a) =>
                /\ response'.unblocked = {b}
                /\ projects'[b].status = "ACTIVE" /\ projects'[c].status = "ON_HOLD"
      ]_vars

\* A chain whose head has just been completed: b was released, c was not.
C2_Witness ==
    \E a, b, c \in TaskIds :
        /\ Cardinality({a, b, c}) = 3
        /\ task_dependency = {<<b, a>>, <<c, b>>}
        /\ tasks[a].status = "COMPLETED"
        /\ tasks[b].status = "PENDING" /\ tasks[c].status = "BLOCKED"
        /\ response = Reply("ok", {b})

\* ------------------------------------------------------ claims: reminders

Instants == 0 .. MaxTime

\* The events of reminder r with the given action type and expected instant
EventsFor(log, r, action, expected) ==
    SelectSeq(log, LAMBDA e : /\ e.reminder_id = r /\ e.action_type = action
                              /\ e.expected_trigger_time = expected)

\* The events of reminder r with the given action type
EventsOfType(log, r, action) ==
    SelectSeq(log, LAMBDA e : e.reminder_id = r /\ e.action_type = action)

\* Reminder r holds a due occurrence that no scheduler run has notified yet.
DueUnnotified(r) ==
    /\ r \in DOMAIN reminders
    /\ reminders[r].is_active
    /\ reminders[r].trigger_datetime # NULL /\ reminders[r].trigger_datetime <= now
    /\ reminders[r].snoozed_until = NULL \/ reminders[r].snoozed_until <= now
    /\ EventsFor(reminder_events, r, "TRIGGERED", reminders[r].trigger_datetime) = <<>>

\* C3: no due occurrence is lost.  A scheduler run that finds a reminder
\* active, not snoozed, with trigger_datetime <= now and no TRIGGERED event
\* for that trigger_datetime yet, appends a TRIGGERED event whose expected
\* instant is that trigger_datetime, however the occurrence arose.
C3_NoDueOccurrenceLost ==
    [][\A t \in Instants, r \in ReminderIds :
          check_due_reminders_job(t) /\ DueUnnotified(r) =>
              EventsFor(reminder_events', r, "TRIGGERED",
                        reminders[r].trigger_datetime) # <<>>
      ]_vars

\* Two notifications were sent for the same occurrence of reminder r.
SentTwice(r) ==
    \E i, j \in DOMAIN pushes :
        /\ i < j
        /\ pushes[i].reminder_id = r /\ pushes[j].reminder_id = r
        /\ pushes[i].trigger_datetime = pushes[j].trigger_datetime

\* C4: the scheduler never double-notifies.  For a reminder without
\* remind_frequency_minutes no two notifications are sent for the same value
\* of trigger_datetime, over any number of runs, and no notification is sent
\* for a reminder at an instant after a complete() that left it inactive.
C4_NeverDoubleNotifies ==
    \A r \in DOMAIN reminders :
        reminders[r].remind_frequency_minutes = NULL =>
            /\ ~SentTwice(r)
            /\ ~reminders[r].is_active =>
                  \A i \in DOMAIN pushes, j \in DOMAIN reminder_events :
                      /\ pushes[i].reminder_id = r
                      /\ reminder_events[j].reminder_id = r
                      /\ reminder_events[j].action_type = "COMPLETED"
                      /\ reminder_events[j].expected_trigger_time
                            = reminders[r].trigger_datetime
                      => pushes[i].at < reminder_events[j].action_time

\* The reminder state the resolution of an occurrence leaves, as claimed: the
\* next occurrence of a RECURRING_SCHEDULED reminder when there is one, the
\* reminder inactive otherwise.
Resolved(row) ==
    IF /\ row.reminder_type = "RECURRING_SCHEDULED"
       /\ row.trigger_datetime # NULL
       /\ calculate_next_trigger(row.recurrence_rule, row.trigger_datetime) # NULL
    THEN [row EXCEPT !.trigger_datetime =
                        calculate_next_trigger(row.recurrence_rule, row.trigger_datetime)]
    ELSE [row EXCEPT !.is_active = FALSE]

\* The step appends exactly one event of the given type for reminder r, with
\* r's trigger_datetime before the step as its expected instant, and leaves r
\* resolved.
ResolvesWith(r, action) ==
    /\ Len(reminder_events') = Len(reminder_events) + 1
    /\ SubSeq(reminder_events', 1, Len(reminder_events)) = reminder_events
    /\ LET e == reminder_events'[Len(reminder_events')]
       IN  /\ e.reminder_id = r /\ e.action_type = action
           /\ e.expected_trigger_time = reminders[r].trigger_datetime
    /\ r \in DOMAIN reminders' /\ reminders'[r] = Resolved(reminders[r])

\* Reminder r is an active reminder of user u.
ActiveOwned(u, r) == OwnedReminder(reminders, u, r) /\ reminders[r].is_active

\* C5: complete(r) on an active reminder owned by the caller appends exactly
\* one COMPLETED event whose expected instant is r's trigger_datetime before
\* the call and leaves r advanced to its next occurrence (RECURRING_SCHEDULED
\* with a next occurrence) or inactive (every other case); skip(r) leaves the
\* same reminder state and differs only in appending a SKIPPED event.
C5_CompleteAndSkipResolve ==
    [][\A u \in Users, r \in ReminderIds, t \in Instants :
          /\ complete_reminder_instance(u, r, t) /\ ActiveOwned(u, r)
                => ResolvesWith(r, "COMPLETED")
          /\ skip_reminder_instance(u, r, t) /\ ActiveOwned(u, r)
                => ResolvesWith(r, "SKIPPED")
      ]_vars

\* The number of complete() and skip() actions recorded for reminder r
Resolutions(r) ==
    Len(EventsOfType(reminder_events, r, "COMPLETED"))
        + Len(EventsOfType(reminder_events, r, "SKIPPED"))

\* C6: a finite series is exhausted.  On a RECURRING_SCHEDULED reminder whose
\* rule has COUNT=n, the n-th complete() or skip() (or any later one) finds no
\* next occurrence and leaves the reminder inactive.
C6_FiniteSeriesExhausted ==
    [][\A u \in Users, r \in ReminderIds, t \in Instants :
          /\ complete_reminder_instance(u, r, t) \/ skip_reminder_instance(u, r, t)
          /\ ActiveOwned(u, r)
          /\ reminders[r].reminder_type = "RECURRING_SCHEDULED"
          /\ reminders[r].recurrence_rule \in ValidRules
          /\ rrulestr(reminders[r].recurrence_rule).count # NULL
          /\ Resolutions(r) + 1 >= rrulestr(reminders[r].recurrence_rule).count
          => ~reminders'[r].is_active
      ]_vars

\* C7: on a RECURRING_SCHEDULED reminder with the plain weekly rule every
\* complete() moves trigger_datetime exactly one week on and leaves the
\* reminder active; with COUNT=1 the first complete() leaves the reminder
\* inactive and trigger_datetime as it was.
C7_WeeklyAdvance ==
    [][\A u \in Users, r \in ReminderIds, t \in Instants :
          /\ complete_reminder_instance(u, r, t)
          /\ ActiveOwned(u, r)
          /\ reminders[r].reminder_type = "RECURRING_SCHEDULED"
          /\ reminders[r].trigger_datetime # NULL
          => /\ reminders[r].recurrence_rule = "FREQ=WEEKLY" =>
                   /\ reminders'[r].trigger_datetime
                         = reminders[r].trigger_datetime + Week
                   /\ reminders'[r].is_active
             /\ reminders[r].recurrence_rule = "FREQ=WEEKLY;COUNT=1" =>
                   /\ ~reminders'[r].is_active
                   /\ reminders'[r].trigger_datetime = reminders[r].trigger_datetime
      ]_vars

\* The delay of a relative reminder, 0 when none is stored
Delay(row) == IF row.relative_delay_minutes = NULL THEN 0 ELSE row.relative_delay_minutes

\* C8: when update_task moves a task from a status other than COMPLETED to
\* COMPLETED at t0, every active RECURRING_RELATIVE reminder referring to that
\* task gets trigger_datetime = t0 + delay and last_notified_at = null and
\* stays active, and every other reminder is unchanged; this holds for each
\* completion after a reopening as well.  Setting COMPLETED on a task that is
\* COMPLETED already changes no reminder.
C8_TaskCompletionReschedules ==
    [][\A u \in Users, t \in TaskIds, t0 \in Instants :
          update_task(u, t, "COMPLETED", t0) /\ OwnedTask(tasks, u, t) =>
              /\ DOMAIN reminders' = DOMAIN reminders
              /\ \A r \in DOMAIN reminders :
                    IF /\ tasks[t].status # "COMPLETED"
                       /\ reminders[r].is_active
                       /\ reminders[r].reminder_type = "RECURRING_RELATIVE"
                       /\ reminders[r].relative_to_task_completion_id = t
                    THEN /\ reminders'[r] =
                              [reminders[r] EXCEPT
                                  !.trigger_datetime = t0 + Minute * Delay(reminders[r]),
                                  !.last_notified_at = NULL]
                         /\ reminders'[r].is_active
                    ELSE reminders'[r] = reminders[r]
      ]_vars

\* A relative reminder rescheduled by the second completion of its task: it
\* was notified for the occurrence the first completion set, and carries the
\* trigger the later completion set, not notified yet.
C8_Witness ==
    \E r \in DOMAIN reminders :
        /\ reminders[r].reminder_type = "RECURRING_RELATIVE"
        /\ reminders[r].is_active
        /\ reminders[r].relative_to_task_completion_id \in DOMAIN tasks
        /\ LET task == tasks[reminders[r].relative_to_task_completion_id]
           IN  /\ task.status = "COMPLETED"
               /\ reminders[r].trigger_datetime
                     = task.completed_at + Minute * Delay(reminders[r])
        /\ reminders[r].last_notified_at = NULL
        /\ \E i \in DOMAIN reminder_events :
              /\ reminder_events[i].reminder_id = r
              /\ reminder_events[i].action_type = "TRIGGERED"
              /\ reminder_events[i].expected_trigger_time < reminders[r].trigger_datetime

\* C9: complete() and skip() on a reminder of the caller that is inactive
\* return "inactive", append no event and change no field of any reminder,
\* whatever the kind of the reminder and however it became inactive.
C9_InactiveIsRefused ==
    [][\A u \in Users, r \in ReminderIds, t \in Instants :
          /\ complete_reminder_instance(u, r, t) \/ skip_reminder_instance(u, r, t)
          /\ OwnedReminder(reminders, u, r)
          /\ ~reminders[r].is_active
          => /\ response'.ret = "inactive"
             /\ reminder_events' = reminder_events
             /\ reminders' = reminders
      ]_vars

\* An inactive reminder, resolved by complete() or skip() earlier, has just
\* been refused.
C9_Witness ==
    /\ response.ret = "inactive"
    /\ \E r \in DOMAIN reminders :
          /\ ~reminders[r].is_active
          /\ Resolutions(r) = 1

\* The selection rule as claimed, for reminder r in a run at instant t
Selected(r, t) ==
    LET row == reminders[r]
    IN  /\ row.is_active
        /\ row.trigger_datetime # NULL /\ row.trigger_datetime <= t
        /\ row.snoozed_until = NULL \/ row.snoozed_until <= t
        /\ \/ row.last_notified_at = NULL
           \/ row.last_notified_at < row.trigger_datetime
           \/ /\ row.remind_frequency_minutes # NULL /\ row.last_notified_at # NULL
              /\ row.last_notified_at + Minute * row.remind_frequency_minutes <= t

\* The TRIGGERED events the step appends for reminder r
TriggeredNow(r) ==
    Len(EventsOfType(reminder_events', r, "TRIGGERED"))
        - Len(EventsOfType(reminder_events, r, "TRIGGERED"))

\* The notifications the step sends for reminder r
SentNow(r) ==
    Len(SelectSeq(pushes', LAMBDA x : x.reminder_id = r))
        - Len(SelectSeq(pushes, LAMBDA x : x.reminder_id = r))

\* C10 as claimed: in a scheduler run at instant t every reminder the
\* selection rule picks gets one dispatch and one TRIGGERED event, and every
\* other reminder gets neither.
C10_OneDispatchAndOneEvent ==
    [][\A t \in Instants :
          check_due_reminders_job(t) =>
              \A r \in DOMAIN reminders :
                  /\ TriggeredNow(r) = IF Selected(r, t) THEN 1 ELSE 0
                  /\ SentNow(r) = IF Selected(r, t) THEN 1 ELSE 0
      ]_vars

\* C10 amended: in a scheduler run at instant t every reminder the selection
\* rule picks gets one TRIGGERED event, and one dispatch when its owner has a
\* device token and none when not; every other reminder gets neither.  A
\* reminder both newly due and persistent-due is picked once.
C10_OneEventAndDispatchIfToken ==
    [][\A t \in Instants :
          check_due_reminders_job(t) =>
              \A r \in DOMAIN reminders :
                  /\ TriggeredNow(r) = IF Selected(r, t) THEN 1 ELSE 0
                  /\ SentNow(r) =
                        IF Selected(r, t) /\ device_token[reminders[r].owner_id]
                        THEN 1 ELSE 0
      ]_vars

\* A reminder with a re-notification frequency notified a second time, by a
\* run that found it newly due (its trigger had moved past the earlier
\* notification) and persistent-due (the frequency had elapsed) at once; the
\* one notification of that run was sent.
C10_Witness ==
    \E r \in DOMAIN reminders :
        /\ reminders[r].remind_frequency_minutes # NULL
        /\ \E i, j \in DOMAIN reminder_events :
              LET first == reminder_events[i]
                  second == reminder_events[j]
              IN  /\ i < j
                  /\ first.reminder_id = r /\ first.action_type = "TRIGGERED"
                  /\ second.reminder_id = r /\ second.action_type = "TRIGGERED"
                  /\ first.action_time < second.expected_trigger_time
                  /\ first.action_time + Minute * reminders[r].remind_frequency_minutes
                        <= second.action_time
                  /\ Len(EventsOfType(reminder_events, r, "TRIGGERED")) = 2
                  /\ \E k \in DOMAIN pushes :
                        /\ pushes[k].reminder_id = r
                        /\ pushes[k].at = second.action_time


\* ------------------------------------------- the scheduler and deliveries

\* What send_apns_notification returns for each reminder of a run: TRUE when
\* the APNs client sent it, FALSE when there is no client or the send raised
\* (the exception is caught and logged inside the function).
DispatchOutcomes == [ReminderIds -> BOOLEAN]

\* The calls to send_apns_notification of a run with what each returned
Dispatches(loaded, now_utc, success) ==
    LET sent == Notifications(loaded, now_utc)
    IN  [i \in DOMAIN sent |->
            [reminder_id |-> sent[i].reminder_id,
             trigger_datetime |-> sent[i].trigger_datetime,
             at |-> sent[i].at,
             success |-> success[sent[i].reminder_id]]]

M_Bookkept_delivered_only(loaded, success) ==
    SelectSeq(loaded, LAMBDA x : device_token[x.owner_id] /\ success[x.id])

\* The listed rows the loop logs an event for and stamps: the statements
\* follow the if/else on the owner and on the result of the send, so all.
Bookkept(loaded, success) == loaded

\* check_due_reminders_job() run to its end with the clock at now_utc and
\* the sends returning what success says.
check_due_reminders_job_sending(now_utc, success) ==
    /\ job.pc = "idle"
    /\ now_utc > now /\ now_utc <= MaxTime
    /\ now' = now_utc
    /\ LET loaded == Loaded(reminders, reminders_to_notify(reminders, now_utc))
           kept == Bookkept(loaded, success)
       IN  /\ Len(reminder_events) + Len(loaded) <= MaxEvents
           /\ Len(pushes) + Len(loaded) <= MaxPushes
           /\ pushes' = pushes \o Dispatches(loaded, now_utc, success)
           /\ reminder_events' = reminder_events \o TriggeredEvents(kept, now_utc)
           /\ reminders' = Notified(reminders, kept, now_utc)
    /\ response' = response
    /\ UNCHANGED <<graphVars, device_token, listVars, reminder_id_seq, job, completion, requests>>

\* The creation requests of a run with deliveries: a one-time and a weekly
\* reminder, re-notified every minute or never.
DispatchRequests ==
    {<<Req("ONE_TIME", 1, NoRule, NULL, NULL), NULL>>,
     <<Req("ONE_TIME", 1, NoRule, NULL, NULL), 1>>,
     <<Req("ONE_TIME", 2, NoRule, NULL, NULL), 2>>,
     <<Req("RECURRING_SCHEDULED", 0, "FREQ=WEEKLY", NULL, NULL), NULL>>,
     <<Req("RECURRING_SCHEDULED", 0, "FREQ=WEEKLY", NULL, NULL), 1>>}

CreateDispatchedReminder ==
    /\ reminder_id_seq < MaxReminders
    /\ \E req \in DispatchRequests : create_user_reminder(1, req[1], req[2])
SnoozeReminder ==
    \E r \in ReminderIds, t \in ClockReads : update_reminder(1, r, [snoozed_until |-> t])
SchedulerRunSending ==
    \E t \in ClockReads, success \in DispatchOutcomes :
        check_due_reminders_job_sending(t, success)

NextDispatch ==
    \/ CreateDispatchedReminder
    \/ RegisterDeviceToken
    \/ SnoozeReminder
    \/ CompleteReminder
    \/ SchedulerRunSending

SpecDispatch == Init /\ [][NextDispatch]_vars

\* --------------------------------------------------- claims: deliveries

\* The outcome of the push for row r in a run at t
Outcome(r, t) ==
    IF ~device_token[reminders[r].owner_id] THEN "not_attempted"
    ELSE IF \E i \in DOMAIN pushes' :
                /\ i > Len(pushes) /\ pushes'[i].reminder_id = r
                /\ pushes'[i].at = t /\ pushes'[i].success
         THEN "sent"
         ELSE "failed"

KindsGiven ==
    ReminderType \cup {"UNSET", "one_time", "recurring_scheduled", "recurring_relative",
                       "One_Time", "Recurring_Scheduled", "Recurring_Relative", "daily"}

\* The creation requests of such a run: each kind with and without a trigger
\* instant, a rule (none, empty, valid, invalid) and a reference task (none,
\* the user's task, a task that does not exist).
KindRequests ==
    {Req(k, trigger, rule, task, IF task = NULL THEN NULL ELSE 1) :
        k \in KindsGiven, trigger \in {NULL, 1},
        rule \in {NoRule, "", "FREQ=WEEKLY", "BOGUS"}, task \in {NULL, 1, 2}}

\* The update requests of such a run: a new kind, a new rule, both, a null
\* trigger instant.
KindUpdates ==
    {[reminder_type |-> k] : k \in ReminderType}
        \cup {[recurrence_rule |-> rule] : rule \in {NoRule, "FREQ=WEEKLY"}}
        \cup {[reminder_type |-> k, recurrence_rule |-> "FREQ=WEEKLY"] : k \in ReminderType}
        \cup {[trigger_datetime |-> NULL]}

CreateKindReminder ==
    /\ reminder_id_seq < MaxReminders
    /\ \E req \in KindRequests : create_user_reminder(1, req, NULL)
UpdateKind ==
    \E r \in ReminderIds, upd \in KindUpdates : update_reminder(1, r, upd)
\* The other handlers that write a reminder's trigger instant, each reading
\* the clock one tick after the last read, up to MaxKindTime
CompleteKindReminder ==
    /\ now < MaxKindTime
    /\ \E r \in ReminderIds : complete_reminder_instance(1, r, now + 1)
SkipKindReminder ==
    /\ now < MaxKindTime
    /\ \E r \in ReminderIds : skip_reminder_instance(1, r, now + 1)
CompleteReferenceTask ==
    /\ now < MaxKindTime
    /\ update_task(1, 1, "COMPLETED", now + 1)
KindSchedulerRun ==
    /\ now < MaxKindTime
    /\ check_due_reminders_job(now + 1)

NextKinds ==
    \/ CreateKindReminder
    \/ UpdateKind
    \/ CompleteKindReminder
    \/ SkipKindReminder
    \/ CompleteReferenceTask
    \/ KindSchedulerRun

SpecKinds == Init /\ [][NextKinds]_vars

\* ---------------------------------------------- claims: kinds and fields

\* C12: every reminder either has its trigger instant set, or is a
\* RECURRING_RELATIVE reminder still waiting for its reference task (null
\* trigger instant), and never both or neither: a reminder without a trigger
\* instant is RECURRING_RELATIVE.
C12_TriggerSetOrRelativePending ==
    \A r \in DOMAIN reminders :
        LET set == reminders[r].trigger_datetime # NULL
            pending == /\ reminders[r].reminder_type = "RECURRING_RELATIVE"
                       /\ reminders[r].trigger_datetime = NULL
        IN  (set \/ pending) /\ ~(set /\ pending)

\* The kind a creation request asks for, for every accepted way of giving it
KindMeant(v) ==
    CASE v \in {"ONE_TIME", "one_time", "One_Time", "UNSET"} -> "ONE_TIME"
      [] v \in {"RECURRING_SCHEDULED", "recurring_scheduled", "Recurring_Scheduled"}
            -> "RECURRING_SCHEDULED"
      [] v \in {"RECURRING_RELATIVE", "recurring_relative", "Recurring_Relative"}
            -> "RECURRING_RELATIVE"
      [] OTHER -> "none"

\* A creation request whose fields do not fit its kind
Inconsistent(req) ==
    LET kind == KindMeant(req.reminder_type)
    IN  \/ /\ kind = "RECURRING_SCHEDULED"
           /\ \/ req.recurrence_rule \notin ValidRules
              \/ req.trigger_datetime = NULL
        \/ kind = "ONE_TIME" /\ req.trigger_datetime = NULL
        \/ kind = "RECURRING_RELATIVE" /\ req.relative_to_task_completion_id = NULL

\* C13: a creation whose request is inconsistent (RECURRING_SCHEDULED without
\* a valid rule or without a trigger instant, ONE_TIME without a trigger
\* instant, RECURRING_RELATIVE without a reference task) answers with an
\* error and stores nothing, however the kind is given.
C13_InconsistentCreationRejected ==
    [][\A req \in KindRequests :
        create_user_reminder(1, req, NULL) /\ Inconsistent(req) =>
            /\ reminders' = reminders
            /\ response'.ret \in {"validation_error", "invalid_relative_task",
                                  "invalid_recurrence_rule"}]_vars

\* C14: in every reachable state a ONE_TIME reminder holds no recurrence
\* rule (the column is null; an empty string is counted as no rule).
C14_OneTimeHasNoRule ==
    \A r \in DOMAIN reminders :
        reminders[r].reminder_type = "ONE_TIME" =>
            reminders[r].recurrence_rule \in {NoRule, ""}

\* ------------------------------------------------- claims: graph edges

NoSelfEdge ==
    /\ \A e \in task_dependency : e[1] # e[2]
    /\ \A e \in project_dependency : e[1] # e[2]

\* C15: add_dependency(n, n) answers "self_dependency" for every node id n
\* and every user, for tasks and for projects, and changes no edge and no
\* status; no reachable graph holds an edge from a node to itself.
C15_SelfDependencyRefused ==
    /\ []NoSelfEdge
    /\ [][/\ \A u \in Users, n \in TaskIds :
                add_task_dependency(u, n, n) =>
                    /\ response'.ret = "self_dependency"
                    /\ UNCHANGED <<tasks, task_dependency>>
          /\ \A u \in Users, n \in ProjectIds :
                add_project_dependency(u, n, n) =>
                    /\ response'.ret = "self_dependency"
                    /\ UNCHANGED <<projects, project_dependency>>]_vars

\* A self dependency was just refused on a graph that holds edges
C15_Witness ==
    /\ response.ret = "self_dependency"
    /\ Cardinality(task_dependency) >= 2

\* C16: adding an edge that exists already answers with the success status
\* and changes neither the edges nor any status, for tasks and for projects:
\* the store after the second add is the store after the first.
C16_ExistingEdgeIsNoOp ==
    [][/\ \A e \in task_dependency : \A u \in Users :
            add_task_dependency(u, e[1], e[2]) /\ OwnedTask(tasks, u, e[1]) =>
                /\ add_dependency_endpoint(response'.ret) = 204
                /\ UNCHANGED <<tasks, task_dependency>>
      /\ \A e \in project_dependency : \A u \in Users :
            add_project_dependency(u, e[1], e[2]) /\ OwnedProject(projects, u, e[1]) =>
                /\ add_dependency_endpoint(response'.ret) = 204
                /\ UNCHANGED <<projects, project_dependency>>]_vars

\* An existing edge was just added again, to a task whose status is not what
\* a recomputation would give
C16_Witness ==
    /\ response.ret = "already_exists"
    /\ \E e \in task_dependency :
          /\ tasks[e[1]].status = "COMPLETED"
          /\ tasks[e[2]].status # "COMPLETED"

\* C17: in every reachable state a task's completion instant is set exactly
\* when its status is COMPLETED.
C17_CompletedAtIffCompleted ==
    \A t \in DOMAIN tasks :
        tasks[t].completed_at # NULL <=> tasks[t].status = "COMPLETED"

\* ------------------------------------------- runs with any status update

\* The statuses a run's update requests carry: the default, the blocked and
\* the completed one of each table
TaskStatuses == {"PENDING", "BLOCKED", "COMPLETED"}
ProjectStatuses == {"ACTIVE", "ON_HOLD", "COMPLETED"}

SetTaskStatus == \E t \in TaskIds, s \in TaskStatuses : update_task(1, t, s, now)
SetProjectStatus == \E p \in ProjectIds, s \in ProjectStatuses : update_project(1, p, s)

NextStatus ==
    \/ SetTaskStatus
    \/ SetProjectStatus
    \/ AddTaskDependency
    \/ RemoveTaskDependency
    \/ AddProjectDependency
    \/ RemoveProjectDependency

SpecStatus == InitGraph /\ [][NextStatus]_vars

\* ------------------------------------------ claims: status recomputation

\* C18: on every reachable graph, recomputing the status of a node a second
\* time right after the first changes nothing and returns false, for tasks
\* and for projects.
C18_RecomputeIdempotent ==
    /\ \A t \in DOMAIN tasks :
          LET once == check_and_update_task_status(tasks, task_dependency, t)
              twice == check_and_update_task_status(once.tasks, task_dependency, t)
          IN  twice.tasks = once.tasks /\ ~twice.was_unblocked
    /\ \A p \in DOMAIN projects :
          LET once == check_and_update_project_status(projects, project_dependency, p)
              twice == check_and_update_project_status(once.projects, project_dependency, p)
          IN  twice.projects = once.projects /\ ~twice.was_unblocked

\* A graph on which the first recomputation releases one task, blocks
\* another, and leaves a third with dependencies as it is
C18_Witness ==
    /\ \E t \in DOMAIN tasks :
          check_and_update_task_status(tasks, task_dependency, t).was_unblocked
    /\ \E t \in DOMAIN tasks :
          /\ tasks[t].status # "BLOCKED"
          /\ check_and_update_task_status(tasks, task_dependency, t).tasks # tasks
    /\ \E t \in DOMAIN tasks :
          /\ dependency_tasks(task_dependency, t) # {}
          /\ check_and_update_task_status(tasks, task_dependency, t).tasks = tasks

\* ------------------------------------- completions among other requests

\* update_task(db, task_id, TaskUpdate(status = COMPLETED), user_id) up to
\* its first db.commit(): the task row is written with its new status and
\* completion instant; the dependents and the relative reminders are not
\* looked at yet.
update_task_first_commit(u, t, t0) ==
    /\ completion.pc = "idle"
    /\ OwnedTask(tasks, u, t)
    /\ tasks[t].status # "COMPLETED"
    /\ t0 >= now /\ t0 <= MaxTime
    /\ now' = t0
    /\ tasks' = [tasks EXCEPT ![t].status = "COMPLETED", ![t].completed_at = t0]
    /\ completion' = [pc |-> "task_committed", node |-> t, at |-> t0]
    /\ response' = response
    /\ UNCHANGED <<task_dependency, projects, project_dependency, device_token, listVars,
                   reminders, reminder_id_seq, reminder_events, pushes, job, requests>>

\* The rest of that call: the relative reminders are rescheduled, the
\* dependents recomputed, and both are committed together.
update_task_second_commit ==
    /\ completion.pc = "task_committed"
    /\ LET t == completion.node
           t0 == completion.at
       IN  /\ \E order \in Orders(dependent_tasks(task_dependency, t)) :
                LET c == CascadeTasks(tasks, task_dependency, order, 1)
                IN  /\ tasks' = c.tasks
                    /\ response' = Reply("ok", c.unblocked)
           /\ reminders' =
                [r \in DOMAIN reminders |->
                    IF r \in RelativeReminders(reminders, t)
                    THEN [reminders[r] EXCEPT
                            !.trigger_datetime =
                                t0 + Minute * (IF reminders[r].relative_delay_minutes = NULL
                                               THEN 0
                                               ELSE reminders[r].relative_delay_minutes),
                            !.last_notified_at = NULL]
                    ELSE reminders[r]]
    /\ completion' = NoCompletion
    /\ UNCHANGED <<now, task_dependency, projects, project_dependency, device_token, listVars,
                   reminder_id_seq, reminder_events, pushes, job, requests>>

\* update_project(db, project_id, ProjectUpdate(status = COMPLETED), user_id)
\* up to its first db.commit()
update_project_first_commit(u, p) ==
    /\ completion.pc = "idle"
    /\ OwnedProject(projects, u, p)
    /\ projects[p].status # "COMPLETED"
    /\ projects' = [projects EXCEPT ![p].status = "COMPLETED"]
    /\ completion' = [pc |-> "project_committed", node |-> p, at |-> NULL]
    /\ response' = response
    /\ UNCHANGED <<now, tasks, task_dependency, project_dependency, device_token, listVars,
                   reminders, reminder_id_seq, reminder_events, pushes, job, requests>>

\* The rest of that call: the dependents recomputed and committed
update_project_second_commit ==
    /\ completion.pc = "project_committed"
    /\ \E order \in Orders(dependent_projects(project_dependency, completion.node)) :
          LET c == CascadeProjects(projects, project_dependency, order, 1)
          IN  /\ projects' = c.projects
              /\ response' = Reply("ok", c.unblocked)
    /\ completion' = NoCompletion
    /\ UNCHANGED <<now, tasks, task_dependency, project_dependency, device_token, listVars,
                   reminders, reminder_id_seq, reminder_events, pushes, job, requests>>

\* The call ends after its first commit: the worker is stopped, or a
\* statement after the commit raises.  What was committed stays, the rest of
\* the session is discarded.
update_stops_after_first_commit ==
    /\ completion.pc # "idle"
    /\ completion' = NoCompletion
    /\ response' = Reply("error", {})
    /\ UNCHANGED <<now, graphVars, device_token, listVars, reminders, reminder_id_seq,
                   reminder_events, pushes, job, requests>>

BeginCompleteTask == \E u \in Users, t \in TaskIds : update_task_first_commit(u, t, now)
EndCompleteTask == update_task_second_commit
BeginCompleteProject == \E u \in Users, p \in ProjectIds : update_project_first_commit(u, p)
EndCompleteProject == update_project_second_commit
StopComplete == update_stops_after_first_commit

NextCommit ==
    \/ BeginCompleteTask
    \/ EndCompleteTask
    \/ BeginCompleteProject
    \/ EndCompleteProject
    \/ StopComplete
    \/ AddTaskDependency
    \/ AddProjectDependency
    \/ CreateRelativeReminder

SpecCommit == InitGraph /\ [][NextCommit]_vars

\* ------------------------------------------------- claims: one commit

AllDependenciesCompleted(ts, deps, t) ==
    \A d \in dependency_tasks(deps, t) : d \in DOMAIN ts /\ ts[d].status = "COMPLETED"

AllProjectDependenciesCompleted(ps, deps, p) ==
    \A d \in dependency_projects(deps, p) : d \in DOMAIN ps /\ ps[d].status = "COMPLETED"

\* C19: every commit that makes a task (project) COMPLETED also holds the
\* statuses of its dependents and the new trigger instants of its active
\* relative reminders: in the committed state no dependent whose
\* dependencies are all completed is still blocked, and no active relative
\* reminder on the task keeps its old trigger instant.
C19_CompletionIsOneCommit ==
    [][/\ \A t \in DOMAIN tasks :
            tasks[t].status # "COMPLETED" /\ tasks'[t].status = "COMPLETED" =>
                /\ \A d \in dependent_tasks(task_dependency', t) :
                      AllDependenciesCompleted(tasks', task_dependency', d)
                          => tasks'[d].status # "BLOCKED"
                /\ \A r \in DOMAIN reminders :
                      /\ reminders[r].reminder_type = "RECURRING_RELATIVE"
                      /\ reminders[r].is_active
                      /\ reminders[r].relative_to_task_completion_id = t
                      => reminders'[r].trigger_datetime =
                            tasks'[t].completed_at + Minute * Delay(reminders[r])
      /\ \A p \in DOMAIN projects :
            projects[p].status # "COMPLETED" /\ projects'[p].status = "COMPLETED" =>
                \A d \in dependent_projects(project_dependency', p) :
                    AllProjectDependenciesCompleted(projects', project_dependency', d)
                        => projects'[d].status # "ON_HOLD"]_vars

\* ------------------------------------------ runs that write the event log

\* The creation requests of such a run: a reminder of each kind, the
\* relative one without a trigger instant until its task completes
EventRequests ==
    {<<Req("ONE_TIME", 1, NoRule, NULL, NULL), NULL>>,
     <<Req("RECURRING_SCHEDULED", 0, "FREQ=WEEKLY", NULL, NULL), NULL>>,
     <<Req("RECURRING_SCHEDULED", 0, "FREQ=WEEKLY;COUNT=1", NULL, NULL), 1>>,
     <<Req("RECURRING_RELATIVE", NULL, NoRule, 1, 1), NULL>>}

CreateLoggedReminder ==
    /\ reminder_id_seq < MaxReminders
    /\ \E req \in EventRequests : create_user_reminder(1, req[1], req[2])

NextEvents ==
    \/ CreateLoggedReminder
    \/ DeleteReminder
    \/ CompleteReminder
    \/ SkipReminder
    \/ JobStart
    \/ JobCommit

SpecEvents == Init /\ [][NextEvents]_vars

\* ------------------------------------------------ claims: the event log

\* The events the step appends to the log
Appended ==
    SubSeq(reminder_events', Len(reminder_events) + 1, Len(reminder_events'))

\* The step keeps the log and adds events at its end only
LogGrows ==
    /\ Len(reminder_events') >= Len(reminder_events)
    /\ SubSeq(reminder_events', 1, Len(reminder_events)) = reminder_events

\* A complete() or skip() step on reminder r: either nothing is persisted,
\* or the row's new trigger instant or deactivation and exactly one event of
\* the given type for r are.
ResolvedWithItsEvent(r, action) ==
    IF /\ r \in DOMAIN reminders
       /\ \/ reminders'[r].trigger_datetime # reminders[r].trigger_datetime
          \/ reminders'[r].is_active # reminders[r].is_active
    THEN /\ LogGrows /\ Len(Appended) = 1
         /\ Appended[1].reminder_id = r /\ Appended[1].action_type = action
    ELSE reminders' = reminders /\ reminder_events' = reminder_events

\* A scheduler commit: a row's last_notified_at changes exactly when one
\* TRIGGERED event for it is appended, and nothing else is appended.
NotifiedWithItsEvent ==
    /\ DOMAIN reminders' = DOMAIN reminders
    /\ LogGrows
    /\ \A i \in DOMAIN Appended : Appended[i].action_type = "TRIGGERED"
    /\ \A r \in DOMAIN reminders :
          Len(SelectSeq(Appended, LAMBDA e : e.reminder_id = r)) =
              IF reminders'[r].last_notified_at # reminders[r].last_notified_at
              THEN 1 ELSE 0

\* C20: a change of a reminder's trigger instant or activity by complete()
\* or skip() is committed together with exactly one COMPLETED / SKIPPED
\* event for it, a change of last_notified_at by a scheduler run together
\* with exactly one TRIGGERED event for it, and when the commit fails
\* neither the change nor the event is persisted.
C20_ChangeAndEventTogether ==
    [][/\ \A u \in Users, r \in ReminderIds, t \in Instants :
            /\ complete_reminder_instance(u, r, t) => ResolvedWithItsEvent(r, "COMPLETED")
            /\ skip_reminder_instance(u, r, t) => ResolvedWithItsEvent(r, "SKIPPED")
      /\ job_commit => NotifiedWithItsEvent]_vars

\* The log holds the TRIGGERED and the COMPLETED event of a reminder that a
\* scheduler run stamped and complete() then advanced
C20_Witness ==
    \E i, j \in DOMAIN reminder_events :
        /\ reminder_events[i].action_type = "TRIGGERED"
        /\ reminder_events[j].action_type = "COMPLETED"
        /\ reminder_events[j].reminder_id = reminder_events[i].reminder_id
        /\ reminder_events[j].reminder_id \in DOMAIN reminders
        /\ reminders[reminder_events[j].reminder_id].last_notified_at
              = reminder_events[i].action_time
        /\ reminders[reminder_events[j].reminder_id].trigger_datetime
              > reminder_events[j].expected_trigger_time

\* ------------------------------------------- handlers running side by side

\* A handler's session holds the rows it has loaded since its last commit as
\* pairs <<id, status>>; a row that is loaded already is not read again.
Cached(seen, x) == \E p \in seen : p[1] = x
StatusIn(seen, x) == (CHOOSE p \in seen : p[1] = x)[2]
Load(seen, ids) ==
    seen \cup {<<x, tasks[x].status>> : x \in {y \in ids : y \in DOMAIN tasks /\ ~Cached(seen, y)}}
Store(seen, x, status) == {p \in seen : p[1] # x} \cup {<<x, status>>}

Free(q) == requests[q].pc \in {"idle"}

M_complete_begins_without_commit(q, t) ==
    /\ Free(q)
    /\ OwnedTask(tasks, 1, t)
    /\ tasks[t].status # "COMPLETED"
    /\ requests' = [requests EXCEPT ![q] =
            [NoRequest EXCEPT !.pc = "committed", !.op = "complete", !.node = t,
                              !.seen = {<<t, "COMPLETED">>}, !.dirty = {t}]]
    /\ response' = response
    /\ UNCHANGED <<now, graphVars, device_token, listVars, reminders, reminder_id_seq,
                   reminder_events, pushes, job, completion>>

\* update_task(db, t, TaskUpdate(status = COMPLETED), user 1) in slot q, up
\* to its first db.commit() and the refresh of its row.  The store of these
\* runs holds no reminder, so the reminder query finds none.
complete_begins(q, t) ==
    /\ Free(q)
    /\ OwnedTask(tasks, 1, t)
    /\ tasks[t].status # "COMPLETED"
    /\ tasks' = [tasks EXCEPT ![t].status = "COMPLETED", ![t].completed_at = now]
    /\ requests' = [requests EXCEPT ![q] =
            [NoRequest EXCEPT !.pc = "committed", !.op = "complete", !.node = t,
                              !.seen = {<<t, "COMPLETED">>}]]
    /\ response' = response
    /\ UNCHANGED <<now, task_dependency, projects, project_dependency, device_token, listVars,
                   reminders, reminder_id_seq, reminder_events, pushes, job, completion>>

\* db_task.dependent_tasks: one SELECT loads the rows of the dependents
complete_loads_dependents(q) ==
    /\ requests[q].pc = "committed"
    /\ \E order \in Orders(dependent_tasks(task_dependency, requests[q].node)) :
          requests' = [requests EXCEPT
                          ![q].pc = "checking",
                          ![q].todo = order,
                          ![q].seen = Load(@, {order[i] : i \in DOMAIN order})]
    /\ response' = response
    /\ UNCHANGED <<now, graphVars, device_token, listVars, reminders, reminder_id_seq,
                   reminder_events, pushes, job, completion>>

\* The status check_and_update_task_status gives to row d of a session that
\* holds the rows `seen` and the dependency ids `ids`
Recomputed(seen, d, ids) ==
    LET uncompleted_dependencies ==
            \E x \in ids : ~Cached(seen, x) \/ StatusIn(seen, x) # "COMPLETED"
    IN  IF uncompleted_dependencies THEN "BLOCKED"
        ELSE IF StatusIn(seen, d) = "BLOCKED" THEN "PENDING"
        ELSE StatusIn(seen, d)

\* check_and_update_task_status(db, dependent_task) for the next dependent:
\* task.dependency_tasks is loaded by one SELECT, the change stays in the
\* session.
complete_checks(q) ==
    /\ requests[q].pc = "checking" /\ requests[q].todo # <<>>
    /\ LET d == Head(requests[q].todo)
           ids == dependency_tasks(task_dependency, d)
           seen == Load(requests[q].seen, ids)
           status == Recomputed(seen, d, ids)
           changed == status # StatusIn(seen, d)
       IN  requests' = [requests EXCEPT
                          ![q].todo = Tail(@),
                          ![q].seen = Store(seen, d, status),
                          ![q].dirty = IF changed THEN @ \cup {d} ELSE @,
                          ![q].unblocked =
                              IF changed /\ status = "PENDING" THEN @ \cup {d} ELSE @]
    /\ response' = response
    /\ UNCHANGED <<now, graphVars, device_token, listVars, reminders, reminder_id_seq,
                   reminder_events, pushes, job, completion>>

\* The second db.commit() of update_task: the changed statuses are written
complete_commits(q) ==
    /\ requests[q].pc = "checking" /\ requests[q].todo = <<>>
    /\ tasks' = [x \in DOMAIN tasks |->
                    IF x \in requests[q].dirty
                    THEN [tasks[x] EXCEPT !.status = StatusIn(requests[q].seen, x)]
                    ELSE tasks[x]]
    /\ requests' = [requests EXCEPT ![q].pc = "done", ![q].ret = "ok"]
    /\ response' = Reply("ok", requests[q].unblocked)
    /\ UNCHANGED <<now, task_dependency, projects, project_dependency, device_token, listVars,
                   reminders, reminder_id_seq, reminder_events, pushes, job, completion>>

\* add_task_dependency(db, t, d, user 1) in slot q up to the append: the two
\* rows and task.dependency_tasks are loaded, the early returns taken.
add_begins(q, t, d) ==
    /\ Free(q)
    /\ LET ret == IF t = d THEN "self_dependency"
                  ELSE IF ~OwnedTask(tasks, 1, t) \/ ~OwnedTask(tasks, 1, d) THEN "not_found"
                  ELSE IF <<t, d>> \in task_dependency THEN "already_exists"
                  ELSE "none"
       IN  IF ret # "none"
           THEN /\ requests' = [requests EXCEPT ![q] =
                        [NoRequest EXCEPT !.pc = "done", !.op = "add", !.node = t,
                                          !.dep = d, !.ret = ret]]
                /\ response' = Reply(ret, {})
           ELSE /\ requests' = [requests EXCEPT ![q] =
                        [NoRequest EXCEPT
                            !.pc = "adding", !.op = "add", !.node = t, !.dep = d,
                            !.seen = Load({}, {t, d} \cup dependency_tasks(task_dependency, t))]]
                /\ response' = response
    /\ UNCHANGED <<now, graphVars, device_token, listVars, reminders, reminder_id_seq,
                   reminder_events, pushes, job, completion>>

\* The rest of add_task_dependency: the append, the recomputation of the
\* task from the rows of the session, and db.commit().  The edge table's
\* primary key refuses an edge another handler has committed meanwhile.
add_commits(q) ==
    /\ requests[q].pc = "adding"
    /\ LET t == requests[q].node
           d == requests[q].dep
           seen == requests[q].seen
           ids == {p[1] : p \in seen} \ {t}
           status == Recomputed(seen, t, ids)
       IN  IF <<t, d>> \in task_dependency
           THEN /\ requests' = [requests EXCEPT ![q].pc = "done", ![q].ret = "error"]
                /\ response' = Reply("error", {})
                /\ UNCHANGED <<tasks, task_dependency>>
           ELSE /\ Cardinality(task_dependency) < MaxEdges
                /\ task_dependency' = task_dependency \cup {<<t, d>>}
                /\ tasks' = [tasks EXCEPT ![t].status = status]
                /\ requests' = [requests EXCEPT ![q].pc = "done", ![q].ret = "ok"]
                /\ response' = Reply("ok", {})
    /\ UNCHANGED <<now, projects, project_dependency, device_token, listVars, reminders,
                   reminder_id_seq, reminder_events, pushes, job, completion>>

\* The stores a run with two handlers starts from: three tasks of user 1,
\* without edges, or with task 3 depending on tasks 1 and 2 and BLOCKED.
InitRace ==
    /\ now = 0
    /\ \/ /\ tasks = [t \in TaskIds |-> NewTask(1)]
          /\ task_dependency = {}
       \/ /\ tasks = [t \in TaskIds |->
                        IF t = 3 THEN [NewTask(1) EXCEPT !.status = "BLOCKED"]
                        ELSE NewTask(1)]
          /\ task_dependency = {<<3, 1>>, <<3, 2>>}
    /\ projects = <<>>
    /\ project_dependency = {}
    /\ device_token = [u \in Users |-> FALSE]
    /\ lists = <<>>
    /\ list_items = <<>>
    /\ reminders = <<>>
    /\ reminder_id_seq = 0
    /\ reminder_events = <<>>
    /\ pushes = <<>>
    /\ job = NoJob
    /\ completion = NoCompletion
    /\ requests = NoRequests
    /\ response = NoReply

NextRace ==
    \/ \E q \in RequestSlots, t \in TaskIds : complete_begins(q, t)
    \/ \E q \in RequestSlots : complete_loads_dependents(q)
    \/ \E q \in RequestSlots : complete_checks(q)
    \/ \E q \in RequestSlots : complete_commits(q)
    \/ \E q \in RequestSlots, t, d \in TaskIds : add_begins(q, t, d)
    \/ \E q \in RequestSlots : add_commits(q)

SpecRace == InitRace /\ [][NextRace]_vars

\* ---------------------------------------- claims: handlers side by side

\* Both slots have finished a request
BothDone == \A q \in RequestSlots : requests[q].pc = "done"

\* C21: when two requests that complete two different tasks a and b have
\* both finished, whatever the interleaving of their steps, a task that was
\* blocked on a and b and has no uncompleted dependency left is not blocked,
\* and one of the two requests reported it as unblocked.
C21_SharedDependentReleased ==
    BothDone /\ (\A q \in RequestSlots : requests[q].op = "complete") =>
        \A c \in DOMAIN tasks :
            /\ \A q \in RequestSlots : <<c, requests[q].node>> \in task_dependency
            /\ \A d \in dependency_tasks(task_dependency, c) : tasks[d].status = "COMPLETED"
            => /\ tasks[c].status # "BLOCKED"
               /\ \E q \in RequestSlots : c \in requests[q].unblocked

\* Both completions have finished and released the shared dependent
C21_Witness ==
    /\ BothDone
    /\ \A q \in RequestSlots : requests[q].op = "complete"
    /\ requests[1].node # requests[2].node
    /\ \A q \in RequestSlots : <<3, requests[q].node>> \in task_dependency
    /\ tasks[3].status = "PENDING"

\* C28: when add_dependency(n, d) and the completion of d have both
\* finished, whatever the interleaving of their steps, and the edge n -> d
\* exists, n is blocked exactly when one of its dependencies is not
\* completed.
C28_AddDuringCompletion ==
    \A qa, qc \in RequestSlots :
        /\ BothDone
        /\ requests[qa].op = "add" /\ requests[qa].ret = "ok"
        /\ requests[qc].op = "complete" /\ requests[qc].node = requests[qa].dep
        /\ <<requests[qa].node, requests[qa].dep>> \in task_dependency
        => LET n == requests[qa].node
           IN  tasks[n].status = "BLOCKED"
                 <=> \E x \in dependency_tasks(task_dependency, n) :
                        tasks[x].status # "COMPLETED"

\* ------------------------------------------------- runs with two users

\* read_task: crud.get_task looks the row up by id alone, the endpoint then
\* compares its owner with the caller
read_task(u, t) ==
    /\ response' = Reply(IF t \notin DOMAIN tasks THEN "404"
                         ELSE IF tasks[t].owner_id # u THEN "403"
                         ELSE "200", {})
    /\ UNCHANGED <<now, graphVars, reminderVars>>

\* read_project: crud.get_project by id alone, then the owner test
read_project(u, p) ==
    /\ response' = Reply(IF p \notin DOMAIN projects THEN "404"
                         ELSE IF projects[p].owner_id # u THEN "403"
                         ELSE "200", {})
    /\ UNCHANGED <<now, graphVars, reminderVars>>

\* read_reminder: crud.get_reminder by id alone, then the owner test
read_reminder(u, r) ==
    /\ response' = Reply(IF r \notin DOMAIN reminders THEN "404"
                         ELSE IF reminders[r].owner_id # u THEN "403"
                         ELSE "200", {})
    /\ UNCHANGED <<now, graphVars, reminderVars>>

\* get_reminder_history(db, reminder_id, user_id)
get_reminder_history(u, r) ==
    /\ response' = Reply(IF ~OwnedReminder(reminders, u, r) THEN "not_found" ELSE "ok", {})
    /\ UNCHANGED <<now, graphVars, reminderVars>>

\* delete_task(db, task_id, user_id): db.delete removes the row and, through
\* the two sides of the dependency relationship, its association rows; no
\* other row is recomputed.
delete_task(u, t) ==
    /\ UNCHANGED <<now, projects, project_dependency, reminderVars>>
    /\ IF ~OwnedTask(tasks, u, t)
       THEN /\ response' = Reply("False", {})
            /\ UNCHANGED <<tasks, task_dependency>>
       ELSE /\ tasks' = [x \in DOMAIN tasks \ {t} |-> tasks[x]]
            /\ task_dependency' = {e \in task_dependency : e[1] # t /\ e[2] # t}
            /\ response' = Reply("True", {})

\* delete_project(db, project_id, user_id)
delete_project(u, p) ==
    /\ UNCHANGED <<now, tasks, task_dependency, reminderVars>>
    /\ IF ~OwnedProject(projects, u, p)
       THEN /\ response' = Reply("False", {})
            /\ UNCHANGED <<projects, project_dependency>>
       ELSE /\ projects' = [x \in DOMAIN projects \ {p} |-> projects[x]]
            /\ project_dependency' = {e \in project_dependency : e[1] # p /\ e[2] # p}
            /\ response' = Reply("True", {})

\* get_list(db, list_id, user_id)
OwnedList(ls, u, l) == l \in DOMAIN ls /\ ls[l].user_id = u

\* db.query(ListItem).join(List).filter(ListItem.id == item_id, List.user_id == user_id)
OwnedListItem(ls, items, u, i) ==
    i \in DOMAIN items /\ OwnedList(ls, u, items[i].list_id)

\* create_list(db, list_data, user_id) / ListItem(**item_data, list_id)
NewList(u) == [user_id |-> u, name |-> "a"]
NewListItem(l) == [list_id |-> l, text |-> "a"]

\* update_list(db, list_id, ListUpdate(name), user_id)
update_list(u, l, name) ==
    /\ UNCHANGED <<now, graphVars, device_token, reminders, reminder_id_seq,
                   reminder_events, pushes, job, completion, requests, list_items>>
    /\ IF ~OwnedList(lists, u, l)
       THEN /\ response' = Reply("None", {})
            /\ UNCHANGED lists
       ELSE /\ lists' = [lists EXCEPT ![l].name = name]
            /\ response' = Reply("ok", {})

\* delete_list(db, list_id, user_id); the list's items go with it
\* (cascade="all, delete-orphan")
delete_list(u, l) ==
    /\ UNCHANGED <<now, graphVars, device_token, reminders, reminder_id_seq,
                   reminder_events, pushes, job, completion, requests>>
    /\ IF ~OwnedList(lists, u, l)
       THEN /\ response' = Reply("False", {})
            /\ UNCHANGED listVars
       ELSE /\ lists' = [x \in DOMAIN lists \ {l} |-> lists[x]]
            /\ list_items' = [i \in {x \in DOMAIN list_items : list_items[x].list_id # l}
                                |-> list_items[i]]
            /\ response' = Reply("True", {})

\* create_list_item(db, item_data, list_id, user_id); item ids are the
\* first MaxItems integers, given in order.
create_list_item(u, l) ==
    /\ UNCHANGED <<now, graphVars, device_token, reminders, reminder_id_seq,
                   reminder_events, pushes, job, completion, requests, lists>>
    /\ IF ~OwnedList(lists, u, l)
       THEN /\ response' = Reply("list_not_found", {})
            /\ UNCHANGED list_items
       ELSE LET id == Cardinality(DOMAIN list_items) + 1
            IN  /\ id \notin DOMAIN list_items /\ id <= MaxItems
                /\ list_items' = [i \in DOMAIN list_items \cup {id} |->
                                    IF i = id THEN NewListItem(l) ELSE list_items[i]]
                /\ response' = Reply("ok", {})

\* update_list_item(db, item_id, ListItemUpdate(text), user_id)
update_list_item(u, i, text) ==
    /\ UNCHANGED <<now, graphVars, device_token, reminders, reminder_id_seq,
                   reminder_events, pushes, job, completion, requests, lists>>
    /\ IF ~OwnedListItem(lists, list_items, u, i)
       THEN /\ response' = Reply("item_not_found", {})
            /\ UNCHANGED list_items
       ELSE /\ list_items' = [list_items EXCEPT ![i].text = text]
            /\ response' = Reply("ok", {})

\* delete_list_item(db, item_id, user_id)
delete_list_item(u, i) ==
    /\ UNCHANGED <<now, graphVars, device_token, reminders, reminder_id_seq,
                   reminder_events, pushes, job, completion, requests, lists>>
    /\ IF ~OwnedListItem(lists, list_items, u, i)
       THEN /\ response' = Reply("False", {})
            /\ UNCHANGED list_items
       ELSE /\ list_items' = [x \in DOMAIN list_items \ {i} |-> list_items[x]]
            /\ response' = Reply("True", {})

\* The ids a request may carry: those of the rows and one that no row has
AnyIds == 1 .. MaxNodes + 1

\* The owner of the i-th row of a table: the rows are user 1's but the last,
\* which is user 2's
OwnerOf(i) == IF i < MaxNodes THEN 1 ELSE 2

\* The row create_user_reminder stores for a ONE_TIME request of user u
OneTimeReminder(u) ==
    [owner_id |-> u, reminder_type |-> "ONE_TIME", trigger_datetime |-> 1,
     recurrence_rule |-> NoRule, remind_frequency_minutes |-> NULL,
     relative_delay_minutes |-> NULL, relative_to_task_completion_id |-> NULL,
     last_notified_at |-> NULL, is_active |-> TRUE, snoozed_until |-> NULL]

\* A store with the rows of two users in one table: tasks, projects,
\* reminders or lists, each row just created.
InitOwners ==
    /\ now = 0
    /\ task_dependency = {}
    /\ project_dependency = {}
    /\ device_token = [u \in Users |-> FALSE]
    /\ list_items = <<>>
    /\ reminder_events = <<>>
    /\ pushes = <<>>
    /\ job = NoJob
    /\ completion = NoCompletion
    /\ requests = NoRequests
    /\ response = NoReply
    /\ \/ /\ tasks = [t \in TaskIds |-> NewTask(OwnerOf(t))]
          /\ projects = <<>> /\ reminders = <<>> /\ reminder_id_seq = 0 /\ lists = <<>>
       \/ /\ projects = [p \in ProjectIds |-> NewProject(OwnerOf(p))]
          /\ tasks = <<>> /\ reminders = <<>> /\ reminder_id_seq = 0 /\ lists = <<>>
       \/ /\ reminders = [r \in 2 .. MaxNodes |-> OneTimeReminder(OwnerOf(r))]
          /\ reminder_id_seq = MaxNodes
          /\ tasks = <<>> /\ projects = <<>> /\ lists = <<>>
       \/ /\ lists = [l \in 2 .. MaxNodes |-> NewList(OwnerOf(l))]
          /\ tasks = <<>> /\ projects = <<>> /\ reminders = <<>> /\ reminder_id_seq = 0

\* Either user calls any handler with any id
NextOwners ==
    \/ \E u \in Users, t \in AnyIds : read_task(u, t)
    \/ \E u \in Users, p \in AnyIds : read_project(u, p)
    \/ \E u \in Users, r \in AnyIds : read_reminder(u, r)
    \/ \E u \in Users, r \in AnyIds : get_reminder_history(u, r)
    \/ \E u \in Users, t \in AnyIds, s \in TaskStatuses : update_task(u, t, s, now)
    \/ \E u \in Users, p \in AnyIds, s \in ProjectStatuses : update_project(u, p, s)
    \/ \E u \in Users, t \in AnyIds : delete_task(u, t)
    \/ \E u \in Users, p \in AnyIds : delete_project(u, p)
    \/ \E u \in Users, t, d \in AnyIds : add_task_dependency(u, t, d)
    \/ \E u \in Users, t, d \in AnyIds : remove_task_dependency(u, t, d)
    \/ \E u \in Users, p, d \in AnyIds : add_project_dependency(u, p, d)
    \/ \E u \in Users, p, d \in AnyIds : remove_project_dependency(u, p, d)
    \/ \E u \in Users, r \in AnyIds, upd \in UpdateRequests : update_reminder(u, r, upd)
    \/ \E u \in Users, r \in AnyIds : delete_reminder(u, r)
    \/ \E u \in Users, r \in AnyIds : complete_reminder_instance(u, r, now + 1)
    \/ \E u \in Users, r \in AnyIds : skip_reminder_instance(u, r, now + 1)
    \/ \E u \in Users, l \in AnyIds : update_list(u, l, "b")
    \/ \E u \in Users, l \in AnyIds : delete_list(u, l)
    \/ \E u \in Users, l \in AnyIds : create_list_item(u, l)
    \/ \E u \in Users, i \in AnyIds : update_list_item(u, i, "b")
    \/ \E u \in Users, i \in AnyIds : delete_list_item(u, i)

SpecOwners == InitOwners /\ [][NextOwners]_vars

\* ------------------------------------------------- claims: two users

\* An id that no row of any table has
Absent == MaxNodes + 1

ForeignTask(u, x) == x \in DOMAIN tasks /\ tasks[x].owner_id # u
ForeignProject(u, x) == x \in DOMAIN projects /\ projects[x].owner_id # u
ForeignReminder(u, x) == x \in DOMAIN reminders /\ reminders[x].owner_id # u

\* C22: every step an operation takes on an id owned by another user is the
\* step it takes on an id that does not exist: the same outcome is returned
\* and the store is left as it was.  The operations are read, update,
\* delete, add and remove dependency (either end), complete, skip and
\* history.
C22_AbsentAndForeignAlike ==
    [][\A u \in Users, x \in AnyIds :
        /\ ForeignTask(u, x) =>
             /\ read_task(u, x) => read_task(u, Absent)
             /\ delete_task(u, x) => delete_task(u, Absent)
             /\ \A s \in TaskStatuses :
                    update_task(u, x, s, now) => update_task(u, Absent, s, now)
             /\ \A d \in AnyIds \ {x, Absent} :
                    /\ add_task_dependency(u, x, d) => add_task_dependency(u, Absent, d)
                    /\ add_task_dependency(u, d, x) => add_task_dependency(u, d, Absent)
                    /\ remove_task_dependency(u, x, d)
                         => remove_task_dependency(u, Absent, d)
                    /\ remove_task_dependency(u, d, x)
                         => remove_task_dependency(u, d, Absent)
        /\ ForeignProject(u, x) =>
             /\ read_project(u, x) => read_project(u, Absent)
             /\ delete_project(u, x) => delete_project(u, Absent)
             /\ \A s \in ProjectStatuses :
                    update_project(u, x, s) => update_project(u, Absent, s)
             /\ \A d \in AnyIds \ {x, Absent} :
                    /\ add_project_dependency(u, x, d)
                         => add_project_dependency(u, Absent, d)
                    /\ add_project_dependency(u, d, x)
                         => add_project_dependency(u, d, Absent)
                    /\ remove_project_dependency(u, x, d)
                         => remove_project_dependency(u, Absent, d)
                    /\ remove_project_dependency(u, d, x)
                         => remove_project_dependency(u, d, Absent)
        /\ ForeignReminder(u, x) =>
             /\ read_reminder(u, x) => read_reminder(u, Absent)
             /\ get_reminder_history(u, x) => get_reminder_history(u, Absent)
             /\ delete_reminder(u, x) => delete_reminder(u, Absent)
             /\ complete_reminder_instance(u, x, now + 1)
                  => complete_reminder_instance(u, Absent, now + 1)
             /\ skip_reminder_instance(u, x, now + 1)
                  => skip_reminder_instance(u, Absent, now + 1)
             /\ \A upd \in UpdateRequests :
                    update_reminder(u, x, upd) => update_reminder(u, Absent, upd)]_vars

\* ------------------------------------- runs with resolved reminders edited

\* The creation requests of such a run: a one-time reminder with and without
\* re-notification, a weekly series of one occurrence and a relative reminder
ResolvableRequests ==
    {<<Req("ONE_TIME", 1, NoRule, NULL, NULL), NULL>>,
     <<Req("ONE_TIME", 1, NoRule, NULL, NULL), 1>>,
     <<Req("RECURRING_SCHEDULED", 0, "FREQ=WEEKLY;COUNT=1", NULL, NULL), NULL>>,
     <<Req("RECURRING_RELATIVE", NULL, NoRule, 1, 1), NULL>>}

\* The update requests of such a run: ReminderUpdate with is_active set
ActivityUpdates == {[is_active |-> TRUE], [is_active |-> FALSE]}

\* User 1 creates, edits and resolves the reminder, completes and reopens
\* task 1; the scheduler runs; each clock read is the next instant.
NextResolved ==
    \/ /\ reminder_id_seq < MaxReminders
       /\ \E req \in ResolvableRequests : create_user_reminder(1, req[1], req[2])
    \/ \E r \in ReminderIds, upd \in ActivityUpdates : update_reminder(1, r, upd)
    \/ \E r \in ReminderIds : complete_reminder_instance(1, r, now + 1)
    \/ \E r \in ReminderIds : skip_reminder_instance(1, r, now + 1)
    \/ update_task(1, 1, "COMPLETED", now + 1)
    \/ update_task(1, 1, "PENDING", now)
    \/ RegisterDeviceToken
    \/ now < MaxTime /\ check_due_reminders_job(now + 1)

SpecResolved == Init /\ [][NextResolved]_vars

\* ------------------------------------------ claims: resolved reminders

\* The reminder was deactivated by a complete or a skip
ResolvedInactive(r) ==
    /\ ~reminders[r].is_active
    /\ \E i \in DOMAIN reminder_events :
          /\ reminder_events[i].reminder_id = r
          /\ reminder_events[i].action_type \in {"COMPLETED", "SKIPPED"}

\* C23: a reminder that a complete or a skip has made inactive stays inactive
\* through every operation (complete, skip, update_reminder, completion of
\* the reference task, scheduler run) as long as its row exists, and no run
\* of the scheduler notifies it: it gets no new TRIGGERED event and no push.
C23_InactiveIsTerminal ==
    [][\A r \in DOMAIN reminders \cap DOMAIN reminders' :
          ResolvedInactive(r) =>
              /\ ~reminders'[r].is_active
              /\ \A i \in DOMAIN reminder_events' :
                    i > Len(reminder_events) => reminder_events'[i].reminder_id # r
              /\ \A i \in DOMAIN pushes' :
                    i > Len(pushes) => pushes'[i].reminder_id # r]_vars

\* The rows, edges and events that belong to a user other than u
OthersRows(u) ==
    <<{<<t, tasks[t]>> : t \in {x \in DOMAIN tasks : tasks[x].owner_id # u}},
      {<<p, projects[p]>> : p \in {x \in DOMAIN projects : projects[x].owner_id # u}},
      {e \in task_dependency :
          \E x \in {e[1], e[2]} : x \in DOMAIN tasks /\ tasks[x].owner_id # u},
      {e \in project_dependency :
          \E x \in {e[1], e[2]} : x \in DOMAIN projects /\ projects[x].owner_id # u},
      {<<r, reminders[r]>> : r \in {x \in DOMAIN reminders : reminders[x].owner_id # u}},
      SelectSeq(reminder_events,
                LAMBDA ev : /\ ev.reminder_id \in DOMAIN reminders
                            /\ reminders[ev.reminder_id].owner_id # u),
      {<<l, lists[l]>> : l \in {x \in DOMAIN lists : lists[x].user_id # u}},
      {<<i, list_items[i]>> :
          i \in {x \in DOMAIN list_items :
                    /\ list_items[x].list_id \in DOMAIN lists
                    /\ lists[list_items[x].list_id].user_id # u}}>>

\* Everything the handlers store
Stored ==
    <<tasks, task_dependency, projects, project_dependency, reminders, reminder_id_seq,
      reminder_events, lists, list_items>>

\* The step is a call made by user u
CalledBy(u) ==
    \/ \E x \in AnyIds :
          \/ \E s \in TaskStatuses : update_task(u, x, s, now)
          \/ \E s \in ProjectStatuses : update_project(u, x, s)
          \/ delete_task(u, x)
          \/ delete_project(u, x)
          \/ \E upd \in UpdateRequests : update_reminder(u, x, upd)
          \/ delete_reminder(u, x)
          \/ complete_reminder_instance(u, x, now + 1)
          \/ skip_reminder_instance(u, x, now + 1)
          \/ update_list(u, x, "b")
          \/ delete_list(u, x)
          \/ create_list_item(u, x)
          \/ update_list_item(u, x, "b")
          \/ delete_list_item(u, x)
    \/ \E x, d \in AnyIds :
          \/ add_task_dependency(u, x, d)
          \/ remove_task_dependency(u, x, d)
          \/ add_project_dependency(u, x, d)
          \/ remove_project_dependency(u, x, d)

\* The step is a call made by user u on a target that is missing or belongs
\* to another user
FailedCallBy(u) ==
    \/ \E x \in {y \in AnyIds : y \notin DOMAIN tasks \/ tasks[y].owner_id # u} :
          \/ \E s \in TaskStatuses : update_task(u, x, s, now)
          \/ delete_task(u, x)
          \/ \E d \in AnyIds :
                \/ add_task_dependency(u, x, d) \/ add_task_dependency(u, d, x)
                \/ remove_task_dependency(u, x, d) \/ remove_task_dependency(u, d, x)
    \/ \E x \in {y \in AnyIds : y \notin DOMAIN projects \/ projects[y].owner_id # u} :
          \/ \E s \in ProjectStatuses : update_project(u, x, s)
          \/ delete_project(u, x)
          \/ \E d \in AnyIds :
                \/ add_project_dependency(u, x, d) \/ add_project_dependency(u, d, x)
                \/ remove_project_dependency(u, x, d)
                \/ remove_project_dependency(u, d, x)
    \/ \E x \in {y \in AnyIds : y \notin DOMAIN reminders \/ reminders[y].owner_id # u} :
          \/ \E upd \in UpdateRequests : update_reminder(u, x, upd)
          \/ delete_reminder(u, x)
          \/ complete_reminder_instance(u, x, now + 1)
          \/ skip_reminder_instance(u, x, now + 1)
    \/ \E x \in {y \in AnyIds : y \notin DOMAIN lists \/ lists[y].user_id # u} :
          \/ update_list(u, x, "b")
          \/ delete_list(u, x)
          \/ create_list_item(u, x)
    \/ \E x \in {y \in AnyIds : \/ y \notin DOMAIN list_items
                                \/ list_items[y].list_id \notin DOMAIN lists
                                \/ lists[list_items[y].list_id].user_id # u} :
          \/ update_list_item(u, x, "b")
          \/ delete_list_item(u, x)

\* Every edge joins two rows of one owner
SameOwnerEdges ==
    /\ \A e \in task_dependency :
          /\ e[1] \in DOMAIN tasks /\ e[2] \in DOMAIN tasks
          /\ tasks[e[1]].owner_id = tasks[e[2]].owner_id
    /\ \A e \in project_dependency :
          /\ e[1] \in DOMAIN projects /\ e[2] \in DOMAIN projects
          /\ projects[e[1]].owner_id = projects[e[2]].owner_id

EdgeSets ==
    {E \in SUBSET {e \in TaskIds \X TaskIds : e[1] # e[2]} :
        Cardinality(E) <= MaxCascadeEdges}

\* A store holding MaxNodes tasks, or MaxNodes projects, of user 1 after such
\* calls: each add blocked its node, whose new dependency was not completed.
InitCascade ==
    /\ now = 0
    /\ \E E \in EdgeSets :
          \/ /\ task_dependency = E
             /\ tasks = [t \in TaskIds |->
                            IF dependency_tasks(E, t) # {}
                            THEN [NewTask(1) EXCEPT !.status = "BLOCKED"]
                            ELSE NewTask(1)]
             /\ projects = <<>>
             /\ project_dependency = {}
          \/ /\ project_dependency = E
             /\ projects = [p \in ProjectIds |->
                               IF dependency_projects(E, p) # {}
                               THEN [NewProject(1) EXCEPT !.status = "ON_HOLD"]
                               ELSE NewProject(1)]
             /\ tasks = <<>>
             /\ task_dependency = {}
    /\ device_token = [u \in Users |-> FALSE]
    /\ lists = <<>>
    /\ list_items = <<>>
    /\ reminders = <<>>
    /\ reminder_id_seq = 0
    /\ reminder_events = <<>>
    /\ pushes = <<>>
    /\ job = NoJob
    /\ completion = NoCompletion
    /\ requests = NoRequests
    /\ response = NoReply

NextCascade ==
    \/ SetTaskStatus
    \/ SetProjectStatus

SpecCascade == InitCascade /\ [][NextCascade]_vars

\* ------------------------------------------ claims: the unblocked list

\* The step completes task t, which was not completed
CompletesTask(t) ==
    /\ t \in DOMAIN tasks /\ tasks[t].status # "COMPLETED"
    /\ update_task(tasks[t].owner_id, t, "COMPLETED", now')

\* The step completes project p, which was not completed
CompletesProject(p) ==
    /\ p \in DOMAIN projects /\ projects[p].status # "COMPLETED"
    /\ update_project(projects[p].owner_id, p, "COMPLETED")

\* The direct dependents of t that were blocked and whose dependencies are
\* all COMPLETED once t is
ReleasableTasks(t) ==
    {d \in dependent_tasks(task_dependency, t) :
        /\ tasks[d].status = "BLOCKED"
        /\ \A x \in dependency_tasks(task_dependency, d) :
              x = t \/ tasks[x].status = "COMPLETED"}

ReleasableProjects(p) ==
    {d \in dependent_projects(project_dependency, p) :
        /\ projects[d].status = "ON_HOLD"
        /\ \A x \in dependency_projects(project_dependency, d) :
              x = p \/ projects[x].status = "COMPLETED"}

\* C25: the unblocked list of a completion holds exactly the direct
\* dependents that were blocked and whose dependencies are all COMPLETED
\* once the node is, and they are the nodes that went from the blocked to
\* the default status in the call.
C25_UnblockedListIsExact ==
    [][/\ \A t \in TaskIds :
            CompletesTask(t) =>
                /\ response'.unblocked = ReleasableTasks(t)
                /\ response'.unblocked =
                     {d \in DOMAIN tasks :
                         tasks[d].status = "BLOCKED" /\ tasks'[d].status = "PENDING"}
       /\ \A p \in ProjectIds :
            CompletesProject(p) =>
                /\ response'.unblocked = ReleasableProjects(p)
                /\ response'.unblocked =
                     {d \in DOMAIN projects :
                         projects[d].status = "ON_HOLD" /\ projects'[d].status = "ACTIVE"}
      ]_vars

\* ------------------------------------------ claims: deleted dependencies

\* Task d is blocked exactly when one of its dependencies is missing or not
\* COMPLETED
TaskConsistent(ts, deps, d) ==
    ts[d].status = "BLOCKED"
        <=> \E x \in dependency_tasks(deps, d) :
               x \notin DOMAIN ts \/ ts[x].status # "COMPLETED"

ProjectConsistent(ps, deps, d) ==
    ps[d].status = "ON_HOLD"
        <=> \E x \in dependency_projects(deps, d) :
               x \notin DOMAIN ps \/ ps[x].status # "COMPLETED"

\* C26: recomputing a node one of whose dependencies has no row leaves it
\* blocked and returns false; and when a node is deleted, each node that
\* depended on it and whose status agreed with its dependencies keeps a
\* status that agrees with the dependencies it has left, and is not released
\* by the deletion unless they are all COMPLETED.
C26_DeletedDependencyKeepsStatusRight ==
    [][/\ \A t \in DOMAIN tasks, g \in TaskIds \ DOMAIN tasks :
             LET r == check_and_update_task_status(
                          tasks, task_dependency \cup {<<t, g>>}, t)
             IN  r.tasks[t].status = "BLOCKED" /\ ~r.was_unblocked
       /\ \A p \in DOMAIN projects, g \in ProjectIds \ DOMAIN projects :
             LET r == check_and_update_project_status(
                          projects, project_dependency \cup {<<p, g>>}, p)
             IN  r.projects[p].status = "ON_HOLD" /\ ~r.was_unblocked
       /\ \A t \in DOMAIN tasks :
             delete_task(tasks[t].owner_id, t) =>
                 \A d \in dependent_tasks(task_dependency, t) \ {t} :
                     TaskConsistent(tasks, task_dependency, d)
                         => /\ d \in DOMAIN tasks'
                            /\ TaskConsistent(tasks', task_dependency', d)
       /\ \A p \in DOMAIN projects :
             delete_project(projects[p].owner_id, p) =>
                 \A d \in dependent_projects(project_dependency, p) \ {p} :
                     ProjectConsistent(projects, project_dependency, d)
                         => /\ d \in DOMAIN projects'
                            /\ ProjectConsistent(projects', project_dependency', d)
      ]_vars

\* -------------------------------------------- claims: reopened dependencies

\* C27: when update_task or update_project moves a COMPLETED node to another
\* status, every node that depends on it is blocked afterwards; and a direct
\* status update does not move a node that has an uncompleted dependency
\* out of the blocked status.
C27_ReopeningBlocksDependents ==
    [][/\ \A t \in DOMAIN tasks, s \in TaskStatuses \ {"COMPLETED"} :
             tasks[t].status = "COMPLETED" /\ update_task(tasks[t].owner_id, t, s, now')
                 => \A d \in dependent_tasks(task_dependency, t) \ {t} :
                       tasks'[d].status = "BLOCKED"
       /\ \A p \in DOMAIN projects, s \in ProjectStatuses \ {"COMPLETED"} :
             projects[p].status = "COMPLETED" /\ update_project(projects[p].owner_id, p, s)
                 => \A d \in dependent_projects(project_dependency, p) \ {p} :
                       projects'[d].status = "ON_HOLD"
       /\ \A t \in DOMAIN tasks, s \in TaskStatuses :
             /\ tasks[t].status = "BLOCKED"
             /\ \E x \in dependency_tasks(task_dependency, t) : tasks[x].status # "COMPLETED"
             /\ update_task(tasks[t].owner_id, t, s, now')
             => tasks'[t].status = "BLOCKED"
       /\ \A p \in DOMAIN projects, s \in ProjectStatuses :
             /\ projects[p].status = "ON_HOLD"
             /\ \E x \in dependency_projects(project_dependency, p) :
                   projects[x].status # "COMPLETED"
             /\ update_project(projects[p].owner_id, p, s)
             => projects'[p].status = "ON_HOLD"
      ]_vars

\* ---------------------------------------------------- claims: cycles

\* The nodes reachable from x along one or more edges of deps
RECURSIVE ReachableFrom(_, _, _)
ReachableFrom(deps, frontier, found) ==
    LET next == {e[2] : e \in {f \in deps : f[1] \in frontier}} \ found
    IN  IF next = {} THEN found
        ELSE ReachableFrom(deps, next, found \cup next)

Acyclic(deps) == \A e \in deps : e[1] \notin ReachableFrom(deps, {e[1]}, {})

\* C29: in every reachable state the task dependency graph and the project
\* dependency graph have no cycle.
C29_GraphsAreAcyclic == Acyclic(task_dependency) /\ Acyclic(project_dependency)

\* ------------------------------------------------------ claims: snooze

\* Reminder r is active and due at t, was notified for its occurrence, was
\* then snoozed, and the snooze has ended at t
SnoozeEnded(r, t) ==
    LET row == reminders[r]
    IN  /\ row.is_active
        /\ row.trigger_datetime # NULL /\ row.trigger_datetime <= t
        /\ row.last_notified_at # NULL /\ row.last_notified_at >= row.trigger_datetime
        /\ row.snoozed_until # NULL
        /\ row.last_notified_at < row.snoozed_until /\ row.snoozed_until <= t

\* C30: a scheduler run at t notifies no reminder whose snoozed_until is
\* later than t, and notifies every active due reminder that was notified,
\* then snoozed until an instant that t has reached and not notified since,
\* whether or not remind_frequency_minutes is set.
C30_SnoozeOnlyPostpones ==
    [][\A t \in ClockReads :
          check_due_reminders_job(t) =>
              \A r \in DOMAIN reminders :
                  /\ reminders[r].snoozed_until # NULL /\ reminders[r].snoozed_until > t
                        => TriggeredNow(r) = 0 /\ SentNow(r) = 0
                  /\ SnoozeEnded(r, t) => TriggeredNow(r) = 1]_vars
====
